---- MODULE Spec2Model ----
(***************************************************************************)
(* Shared element transition engine of hachi-player (SharedElement.tsx,   *)
(* kept in src/src/Contexts.tsx, lines 51-587).                            *)
(*                                                                         *)
(* The registry (globalState.groups) is a JavaScript Map: an ordered list  *)
(* of entries in insertion order.  Promises are modelled by their          *)
(* reactions: a FIFO microtask queue that is drained before the next       *)
(* event-loop task (a host call, an animation finishing) runs.             *)
(***************************************************************************)
EXTENDS Integers, Sequences, FiniteSets, TLC

\* ------------------------------------------------------------------ bounds

\* Number of startTransitionSE calls in one behaviour.
MaxReq == 3
\* Number of distinct element handles.
MaxElems == 4
\* Number of registry mutations one mutation callback performs.
MaxCbOps == 2

Names == {"A", "B", "C"}
Elems == 1..MaxElems

\* ------------------------------------------------------------ data model

\* An optional value (T | undefined): the empty sequence or a singleton.
undefined == <<>>
Some(x) == <<x>>
IsDefined(o) == o /= <<>>
Get(o) == o[1]

\* ElementState without its element handle (interface ElementState).
\* fadeIn / fadeOut are `fadeInAnimation.enable ?? true` and
\* `fadeOutAnimation.enable ?? true`; readyAnim tells whether the element's
\* onAnimationsReady callback starts an animation on elGroup (as PlayPage's
\* does).
DefaultState == [dependencies |-> {}, fadeIn |-> TRUE, fadeOut |-> TRUE,
                 readyAnim |-> FALSE]

\* const SharedElementDefaultProps
SharedElementDefaultProps == DefaultState

\* getBoundingClientRect() of a live element: every element handle has its
\* own place in the layout.
RectOf(e) == [x |-> 0, y |-> 100 * e, width |-> 10 * e, height |-> 20]

\* interface GroupState, with the name it is stored under in the Map.
NewGroup(name, e) == [name |-> name, elements |-> <<e>>, elOld |-> undefined,
                      rectOld |-> undefined]

\* ------------------------------------------------------- sequence helpers

RECURSIVE IndexOfName(_, _, _)
IndexOfName(gs, name, i) ==
    IF i > Len(gs) THEN 0
    ELSE IF gs[i].name = name THEN i
    ELSE IndexOfName(gs, name, i + 1)

\* Map.prototype.has
Has(gs, name) == IndexOfName(gs, name, 1) /= 0
\* Map.prototype.get (only used where Has holds)
GetGroup(gs, name) == gs[IndexOfName(gs, name, 1)]

RemoveAt(s, i) == SubSeq(s, 1, i - 1) \o SubSeq(s, i + 1, Len(s))

\* Array.prototype.findIndex(val => val().el === child()), 1-based, 0 = -1.
RECURSIVE FindIndex(_, _, _)
FindIndex(elements, e, i) ==
    IF i > Len(elements) THEN 0
    ELSE IF elements[i] = e THEN i
    ELSE FindIndex(elements, e, i + 1)

Range(s) == {s[i] : i \in 1..Len(s)}

\* ---------------------------------------------------- membership tracker

\* Mutant: a registering element goes to the front of the live list.
mountActionUnshift(gs, name, e) ==
    IF Has(gs, name)
    THEN LET i == IndexOfName(gs, name, 1)
         IN  [gs EXCEPT ![i].elements = <<e>> \o @]
    ELSE Append(gs, NewGroup(name, e))

\* mountAction(name) of the SharedElement whose element handle is e.
mountAction(gs, name, e) ==
    IF Has(gs, name)
    THEN LET i == IndexOfName(gs, name, 1)
         IN  [gs EXCEPT ![i].elements = Append(@, e)]
    ELSE Append(gs, NewGroup(name, e))

\* Mutant: unregistering leaves the element in its live list.
cleanupActionKeeps(gs, transitioning, name, e) == gs

\* cleanupAction(name) of the SharedElement whose element handle is e;
\* transitioning is globalState.isTransitioning at the time of the call.
cleanupAction(gs, transitioning, name, e) ==
    IF ~Has(gs, name) THEN gs
    ELSE LET i   == IndexOfName(gs, name, 1)
             idx == FindIndex(gs[i].elements, e, 1)
             els == IF idx >= 1 THEN RemoveAt(gs[i].elements, idx)
                    ELSE gs[i].elements
         IN  IF ~(transitioning \/ Len(els) > 0)
             THEN RemoveAt(gs, i)
             ELSE [gs EXCEPT ![i].elements = els]

\* ------------------------------------------------------ snapshot phase

\* One iteration of the forEach of saveElementsAndBoundingRects: es maps an
\* element handle to the current value of its elementState signal.
\* cloneElementForTransition(state.el) is a detached copy of the element,
\* known here by the handle it was copied from.
SaveGroup(g, es) ==
    IF Len(g.elements) = 1
    THEN LET e == g.elements[1]
         IN  [g EXCEPT !.elOld = Some([el           |-> e,
                                       dependencies |-> es[e].dependencies,
                                       fadeIn       |-> es[e].fadeIn,
                                       fadeOut      |-> es[e].fadeOut,
                                       readyAnim    |-> es[e].readyAnim]),
                       !.rectOld = Some(RectOf(e))]
    ELSE g

saveElementsAndBoundingRects(gs, es) ==
    [i \in 1..Len(gs) |-> SaveGroup(gs[i], es)]

\* Mutant: the teardown leaves the rectangles.
clearSavedElementsOnly(gs) ==
    [i \in 1..Len(gs) |-> [gs[i] EXCEPT !.elOld = undefined]]

clearSavedElementsAndBoundingRects(gs) ==
    [i \in 1..Len(gs) |-> [gs[i] EXCEPT !.elOld = undefined,
                                        !.rectOld = undefined]]

\* ------------------------------------------------- mutation callback

\* What a mutation callback does to the registry: a list of component
\* life-cycle steps (a SharedElement mounting, being disposed, or changing
\* its name), all run while isTransitioning is true.
\* The elements in some live list.
Mounted(gs) == UNION {Range(gs[i].elements) : i \in 1..Len(gs)}

\* A life-cycle step of the SharedElement with element handle el:
\*   mount    onMount(() => mountAction(props.name)), st being the value of
\*            its elementState signal
\*   cleanup  onCleanup(() => cleanupAction(props.name))
\*   rename   the effect of lines 298-304: props.name changed from `from`
\*            to `name`
\*   discard  onCleanup(() => cleanupAction(props.name)) of a component
\*            that is disposed before its onMount effect has run
Op(op, name, el, st, from) ==
    [op |-> op, name |-> name, el |-> el, st |-> st, from |-> from]

\* One step applied to the registry gs and the signals es, transitioning
\* being globalState.isTransitioning.
ApplyOp(gs, es, o, transitioning) ==
    CASE o.op = "mount" ->
           [groups |-> mountAction(gs, o.name, o.el),
            elementState |-> [es EXCEPT ![o.el] = o.st]]
      [] o.op \in {"cleanup", "discard"} ->
           \* the signal of a disposed component is gone with it
           LET gs1 == cleanupAction(gs, transitioning, o.name, o.el)
           IN  [groups |-> gs1,
                elementState |-> IF o.el \in Mounted(gs1) THEN es
                                 ELSE [es EXCEPT ![o.el] = DefaultState]]
      [] OTHER ->
           [groups |-> mountAction(cleanupAction(gs, transitioning, o.from,
                                                 o.el), o.name, o.el),
            elementState |-> es]

\* What a mutation callback does to the registry: a list of such steps.
RECURSIVE ApplyOps(_, _, _, _)
ApplyOps(gs, es, ops, transitioning) ==
    IF ops = <<>> THEN [groups |-> gs, elementState |-> es]
    ELSE LET r == ApplyOp(gs, es, Head(ops), transitioning)
         IN  ApplyOps(r.groups, r.elementState, Tail(ops), transitioning)

\* The name whose live list holds e.
NameOf(gs, e) == CHOOSE n \in Names : Has(gs, n) /\ e \in Range(GetGroup(gs, n).elements)

\* The steps the components can take in registry gs: a new component (its
\* state one of sc.states) mounts under a name of sc.names, a mounted
\* component is disposed, a mounted component changes its name, or a new
\* component is disposed before it mounted; sc.kinds tells which of these
\* the components of the page take.  A new
\* component gets an element handle of `free`; handles are interchangeable,
\* so the least one stands for all of them.
Least(F) == IF F = {} THEN {} ELSE {CHOOSE e \in F : \A f \in F : e <= f}

ValidOps(gs, free, sc) ==
    {o \in
        {Op("mount", n, e, st, "") :
            n \in sc.names, e \in Least(free \ Mounted(gs)), st \in sc.states}
        \cup {Op("cleanup", NameOf(gs, e), e, DefaultState, "") :
                 e \in Mounted(gs)}
        \cup UNION {{Op("rename", n, e, DefaultState, NameOf(gs, e)) :
                         n \in sc.names \ {NameOf(gs, e)}} : e \in Mounted(gs)}
        \cup {Op("discard", n, e, DefaultState, "") :
                 n \in sc.names, e \in Least(free \ Mounted(gs))} :
     o.op \in sc.kinds}

\* The step lists of at most k steps a callback can perform from gs.
RECURSIVE Scripts(_, _, _, _, _)
Scripts(gs, es, free, sc, k) ==
    IF k = 0 THEN {<<>>}
    ELSE {<<>>} \cup
         UNION {{<<o>> \o rest :
                    rest \in Scripts(ApplyOp(gs, es, o, TRUE).groups, es,
                                     free \ {o.el}, sc, k - 1)} :
                o \in ValidOps(gs, free, sc)}

\* -------------------------------------------------------- group animator

\* AnimationSettings as far as the engine reads it: the optional `enable`.
Settings(enable) == [enable |-> enable]

\* What the host passes as props to setTransformProperty: the settings, or
\* a function returning them (JSX.FunctionMaybe<AnimationSettings>).
Props(isFunction, settings) == [isFunction |-> isFunction, settings |-> settings]

\* typeof props == "function" ? props() : props
ResolvedProps(props) == props.settings

\* Mutant: an override that is already set is kept.
setTransformPropertyIfAbsent(tp, groupName, props) ==
    IF IsDefined(tp[groupName]) THEN tp
    ELSE [tp EXCEPT ![groupName] = Some(ResolvedProps(props))]

\* setTransformProperty(groupName, props), tp being
\* globalState.transformProperties (undefined where the Map has no entry).
setTransformProperty(tp, groupName, props) ==
    [tp EXCEPT ![groupName] = Some(ResolvedProps(props))]

\* getTransformProperty(groupName)
getTransformProperty(tp, groupName) == tp[groupName]

\* Mutant: the geometric interpolation cannot be disabled.
TransformAlwaysEnabled(tp, name) == TRUE

\* getTransformProperty(name)?.enable ?? true
TransformEnabled(tp, name) ==
    LET p == getTransformProperty(tp, name)
    IN  IF IsDefined(p) /\ IsDefined(Get(p).enable) THEN Get(Get(p).enable)
        ELSE TRUE

\* A microtask: the reaction of a promise that has settled.
\*   groupEnd  the finally of a group's animationsEnd, followed by the
\*             reaction Promise.all(animationPromiseList) put on it
\*   transEnd  the finally of Promise.all(animationPromiseList)
\*   deferred  the finally a deferred startTransitionSE put on
\*             previousTransitionFinished
Job(type, t, name) == [type |-> type, t |-> t, name |-> name]

\* An entry of the log of what one performTransition did.
Event(ev, name, role, isSingle, scan) ==
    [ev |-> ev, name |-> name, role |-> role, isSingle |-> isSingle,
     scan |-> scan]

\* The overlay (elGroup) built for a group, with the animations
\* elGroup.getAnimations({subtree: true}) returns once the ready callbacks
\* have run.  A signal over no animation, Promise.all([]), is fulfilled at
\* once and its reaction is queued.  The finally of line 513 keeps the
\* GroupState object it was created for (`group`); orphan tells that the
\* Map no longer holds that object.
Overlay(t, name, branch, elNew, elOld, anims, from, to) ==
    [t |-> t, name |-> name, branch |-> branch, elNew |-> elNew,
     elOld |-> elOld, anims |-> anims, started |-> anims,
     from |-> from, to |-> to,
     signal |-> IF anims = {} THEN "fulfilled" ELSE "pending",
     orphan |-> FALSE]

\* The overlays after groups.delete(name) for the names of `deleted`.
Orphaned(root, deleted) ==
    {[o EXCEPT !.orphan = @ \/ o.name \in deleted] : o \in root}

\* The names of the entries of gs that gs1 no longer has.
DeletedNames(gs, gs1) ==
    {gs[i].name : i \in 1..Len(gs)} \ {gs1[i].name : i \in 1..Len(gs1)}

\* The callbacks the finally of a group's animationsEnd invokes, gs being
\* the registry when it runs.  Lines 515-516: the new side's callback, then
\* the callback of whatever group.elOld holds by then; line 577: the old
\* side's callback.
EndCallbacks(o, gs) ==
    IF o.branch = "pair"
    THEN <<Event("end", o.name, "in", o.elOld = 0, 0)>>
         \o (IF /\ ~o.orphan
                 /\ Has(gs, o.name)
                 /\ IsDefined(GetGroup(gs, o.name).elOld)
              THEN <<Event("end", o.name, "out", FALSE, 0)>>
              ELSE <<>>)
    ELSE <<Event("end", o.name, "out", TRUE, 0)>>

\* The callbacks a list of events stands for: which callback, of which
\* group, in which role.
Calls(events) ==
    {<<events[i].ev, events[i].name, events[i].role>> :
        i \in {k \in 1..Len(events) : events[k].ev \in {"ready", "end"}}}

\* Adds a started overlay to the running state w of the wave loop.
StartOverlay(w, o) ==
    [w EXCEPT !.root = @ \cup {o},
              !.animationPromiseList = Append(@, o.name),
              !.microtasks = IF o.signal = "fulfilled"
                             THEN Append(@, Job("groupEnd", o.t, o.name))
                             ELSE @]

\* Mutant: a group starts without waiting for its dependencies.
DependenciesIgnored(dependencies, groupsReady) == TRUE

\* dependencies.every(dep => groupsReady.includes(dep)) of lines 382 and 524.
DependenciesReady(dependencies, groupsReady) ==
    dependencies \subseteq Range(groupsReady)

\* Mutant: the new side is never told it is alone.
cbStateNewNeverSingle(hasOld) == [role |-> "in", isSingle |-> FALSE]

\* cbStateNew of lines 503-507, without the overlay's nodes: isSingle is
\* elOld === undefined.
cbStateNew(hasOld) == [role |-> "in", isSingle |-> ~hasOld]

\* Lines 379-520: the group has one live element.
AnimatePair(w, g, es, tp, t, scan) ==
    LET name  == g.name
        e     == g.elements[1]
        st    == es[e]
        hasOld == IsDefined(g.elOld)
        old   == Get(g.elOld)
        anims == (IF TransformEnabled(tp, name) /\ hasOld
                  THEN {"transform"} ELSE {})
                 \cup (IF st.fadeIn THEN {"fadeIn"} ELSE {})
                 \cup (IF hasOld /\ old.fadeOut THEN {"fadeOut"} ELSE {})
                 \cup (IF hasOld /\ old.readyAnim THEN {"readyOld"} ELSE {})
                 \cup (IF st.readyAnim THEN {"readyNew"} ELSE {})
        o     == Overlay(t, name, "pair", e, IF hasOld THEN old.el ELSE 0,
                         anims,
                         IF hasOld THEN g.rectOld ELSE undefined,
                         Some(RectOf(e)))
        evs   == <<Event("start", name, "", FALSE, scan)>>
                 \o (IF hasOld
                     THEN <<Event("ready", name, "out", FALSE, scan)>>
                     ELSE <<>>)
                 \o <<Event("ready", name, cbStateNew(hasOld).role,
                            cbStateNew(hasOld).isSingle, scan)>>
    IN  IF ~DependenciesReady(st.dependencies, w.groupsReady)
        THEN [w EXCEPT !.allReady = FALSE]
        ELSE LET w1 == StartOverlay(w, o)
             IN  [w1 EXCEPT !.hidden = @ \cup {e},
                            !.events = @ \o evs,
                            !.groupsReady = Append(@, name)]

\* Lines 521-581: the group has no live element.  group.elOld! is read
\* without a check: with no snapshot, elStateOld.dependencies raises a
\* TypeError that leaves performTransition.
AnimateOld(w, g, t, scan) ==
    LET name  == g.name
        old   == Get(g.elOld)
        anims == (IF old.fadeOut THEN {"fadeOut"} ELSE {})
                 \cup (IF old.readyAnim THEN {"readyOld"} ELSE {})
        o     == Overlay(t, name, "old", 0, old.el, anims,
                         g.rectOld, undefined)
        evs   == <<Event("start", name, "", FALSE, scan),
                   Event("ready", name, "out", TRUE, scan)>>
    IN  IF ~IsDefined(g.elOld)
        THEN [w EXCEPT !.threw = TRUE]
        ELSE IF ~DependenciesReady(old.dependencies, w.groupsReady)
        THEN [w EXCEPT !.allReady = FALSE]
        ELSE LET w1 == StartOverlay(w, o)
             IN  [w1 EXCEPT !.events = @ \o evs,
                            !.groupsReady = Append(@, name)]

\* Mutant: the first element of a group of several is animated.
VisitGroupFirstOfSeveral(w, g, es, tp, t, scan) ==
    IF g.name \in Range(w.groupsReady) THEN w
    ELSE IF Len(g.elements) >= 1
    THEN AnimatePair(w, g, es, tp, t, scan)
    ELSE AnimateOld(w, g, t, scan)

\* Mutant: a group of several waits for the dependencies of its first
\* element.
VisitGroupSeveralWaits(w, g, es, tp, t, scan) ==
    IF g.name \in Range(w.groupsReady) THEN w
    ELSE IF Len(g.elements) > 1
    THEN IF DependenciesReady(es[g.elements[1]].dependencies, w.groupsReady)
         THEN [w EXCEPT !.errors = Append(@, "multiple"),
                        !.groupsReady = Append(@, g.name)]
         ELSE [w EXCEPT !.allReady = FALSE]
    ELSE IF Len(g.elements) = 1
    THEN AnimatePair(w, g, es, tp, t, scan)
    ELSE AnimateOld(w, g, t, scan)

\* The body of the for loop of performTransitionGroups for one entry.
VisitGroup(w, g, es, tp, t, scan) ==
    IF g.name \in Range(w.groupsReady) THEN w
    ELSE IF Len(g.elements) > 1
    THEN [w EXCEPT !.errors = Append(@, "multiple"),
                   !.groupsReady = Append(@, g.name)]
    ELSE IF Len(g.elements) = 1
    THEN AnimatePair(w, g, es, tp, t, scan)
    ELSE AnimateOld(w, g, t, scan)

\* for (const [name, group] of globalState.groups), from entry i on; an
\* exception ends the loop.
RECURSIVE ScanFrom(_, _, _, _, _, _, _)
ScanFrom(w, gs, i, es, tp, t, scan) ==
    IF i > Len(gs) \/ w.threw THEN w
    ELSE ScanFrom(VisitGroup(w, gs[i], es, tp, t, scan), gs, i + 1, es, tp,
                  t, scan)

\* performTransitionGroups(animationPromiseList, groupsReady): one scan;
\* its result is w.allReady.
performTransitionGroups(w, gs, es, tp, t, scan) ==
    ScanFrom([w EXCEPT !.allReady = TRUE], gs, 1, es, tp, t, scan)

\* The locals of performTransition before its while loop (lines 345-348),
\* with the parts of the document and of the microtask queue the loop adds
\* to.  threw tells whether the mutation callback raised an exception.
NewWave(root, hid, mt, threw) ==
    [groupsReady |-> <<>>, animationPromiseList |-> <<>>, root |-> root,
     hidden |-> hid, microtasks |-> mt, events |-> <<>>, errors |-> <<>>,
     allReady |-> FALSE, threw |-> threw, overflow |-> FALSE, scans |-> 0]

\* Mutant: silent-failure mode is ignored.
ReportAlways(errors, msg, silent) == Append(errors, msg)

\* if (!globalState.silentlyFail) console.error(msg) of lines 323-325 and
\* 351-353: the messages reported so far, with msg unless silent.
Report(errors, msg, silent) == IF silent THEN errors ELSE Append(errors, msg)

\* dependencyDepth > globalState.maxDependencyDepth of line 349.
DepthExceeded(dependencyDepth, maxDepth) == dependencyDepth > maxDepth

\* while (!allReady) of performTransition, dependencyDepth being the
\* number of the scan about to run.
RECURSIVE WaveLoop(_, _, _, _, _, _, _, _)
WaveLoop(w, gs, es, tp, t, dependencyDepth, maxDepth, silent) ==
    IF w.allReady \/ w.threw THEN w
    ELSE IF DepthExceeded(dependencyDepth, maxDepth)
    THEN [w EXCEPT !.overflow = TRUE,
                   !.errors = Report(@, "depth", silent)]
    ELSE WaveLoop([performTransitionGroups(w, gs, es, tp, t, dependencyDepth)
                     EXCEPT !.scans = dependencyDepth],
                  gs, es, tp, t, dependencyDepth + 1, maxDepth, silent)

\* ------------------------------------------------------------------ state

VARIABLES
    groups,            \* globalState.groups, entries in insertion order
    elementState,      \* element handle -> value of its elementState signal
    transformProperties,        \* globalState.transformProperties
    isTransitioning,            \* globalState.isTransitioning
    previousTransitionFinished, \* globalState.previousTransitionFinished
    allowDefer,                 \* globalState.allowDefer
    silentlyFail,               \* globalState.silentlyFail
    maxDependencyDepth,         \* globalState.maxDependencyDepth
    transitionRoot,    \* the overlays attached to globalState.transitionRoot
    hidden,            \* live elements carrying --se-transition-internal-hidden
    settled,           \* the completion futures that have settled
    reactions,         \* future -> the deferred requests waiting on it
    microtasks,        \* the microtask queue
    trans,             \* transition -> state of Promise.all(animationPromiseList),
                       \* "none" before it is called; history: the
                       \* callbacks invoked for it while it has overlays
    requests,          \* history: one record per startTransitionSE call
    lastRun            \* history: what the step just taken did, if it was a
                       \* startTransitionSE call or a performTransition

vars == <<groups, elementState, transformProperties, isTransitioning,
          previousTransitionFinished, allowDefer, silentlyFail,
          maxDependencyDepth, transitionRoot, hidden, settled, reactions,
          microtasks, trans, requests, lastRun>>

config == <<allowDefer, silentlyFail, maxDependencyDepth>>

\* A completion future is known by the number of the request whose
\* performTransition created it; 0 is the initial Promise.resolve().
Futures == 0..MaxReq

\*   call   the step was a startTransitionSE call, with argument arg
\*   t      the request whose performTransition ran in the step, or 0,
\*          with the steps (ops) its mutation callback performed
\*   op     the life-cycle step a component took in the step, with the
\*          visual it was constructed from
\*   set    the name and props of the setTransformProperty call the step
\*          was
\*   ended  the overlay whose animationsEnd.finally ran in the step: its
\*          transition, name and branch, and whether it had an old clone
NoRun == [call |-> FALSE, arg |-> undefined, t |-> 0, overlapped |-> FALSE,
          input |-> <<>>, events |-> <<>>, errors |-> <<>>, scans |-> 0,
          overflow |-> FALSE, threw |-> FALSE, op |-> undefined,
          visual |-> "", ended |-> undefined, ops |-> <<>>,
          set |-> undefined]

\* The state after the module is loaded (lines 109-152), for given values of
\* the three configuration fields.
InitWith(defer, silent, depth) ==
    /\ groups = <<>>
    /\ elementState = [e \in Elems |-> DefaultState]
    /\ transformProperties = [n \in Names |-> undefined]
    /\ isTransitioning = FALSE
    /\ previousTransitionFinished = 0
    /\ allowDefer = defer
    /\ silentlyFail = silent
    /\ maxDependencyDepth = depth
    /\ transitionRoot = {}
    /\ hidden = {}
    /\ settled = {0}
    /\ reactions = [f \in Futures |-> <<>>]
    /\ microtasks = <<>>
    /\ trans = [t \in 1..MaxReq |->
                  [state |-> "none", pending |-> {}, single |-> {},
                   calls |-> {}]]
    /\ requests = <<>>
    /\ lastRun = NoRun

\* ------------------------------------------------------------- scheduler

\* Whether some overlay still has animations that have not settled.
AnimationsRunning == \E o \in transitionRoot : o.signal = "pending"

\* Mutant: a transition that animates nothing clears the flag before it
\* returns.
FlagClearedWhenIdle(names) == names /= {}

\* globalState.isTransitioning when performTransition returns, names being
\* the groups whose signals it collected: set at line 332 and cleared only
\* by the finally of lines 360-363, a promise reaction, which cannot run
\* before the caller has returned even if Promise.all([]) is already
\* fulfilled.
FlagOnReturn(names) == TRUE

\* performTransition(callback) for request t.  The callback performs ops and
\* then returns, or raises an exception if throws; mt is the microtask queue
\* the reactions of already-settled promises are appended to.  call and arg
\* only go into the history: whether the caller is startTransitionSE, and
\* with which allowDefer_.
performTransition(t, ops, throws, mt, call, arg) ==
    \* cb: the registry and the signals when callback() has returned;
    \* w: the locals when the while loop is left
    \E cb \in {ApplyOps(saveElementsAndBoundingRects(groups, elementState),
                         elementState, ops, TRUE)} :
    \E w \in {WaveLoop(NewWave(transitionRoot, hidden, mt, throws), cb.groups,
                        cb.elementState, transformProperties, t, 1,
                        maxDependencyDepth, silentlyFail)} :
    LET names == Range(w.animationPromiseList)
        \* history: the live elements of the groups that had exactly one
        \* live element before and after the callback
        single == {e \in Elems : \E i \in 1..Len(cb.groups) :
                      /\ cb.groups[i].elements = <<e>>
                      /\ Has(groups, cb.groups[i].name)
                      /\ Len(GetGroup(groups, cb.groups[i].name).elements) = 1}
        \* history: the ready callbacks invoked, kept while the transition
        \* has an overlay
        calls == IF \E o \in w.root : o.t = t THEN Calls(w.events) ELSE {}
    IN  /\ isTransitioning' = FlagOnReturn(names)
        /\ previousTransitionFinished' = t
        /\ elementState' = cb.elementState
        /\ transitionRoot' = w.root
        /\ hidden' = w.hidden
        /\ lastRun' = [NoRun EXCEPT
                         !.call = call, !.arg = arg, !.t = t,
                         !.overlapped = AnimationsRunning,
                         !.input = cb.groups, !.events = w.events,
                         !.errors = w.errors, !.scans = w.scans,
                         !.overflow = w.overflow, !.threw = w.threw,
                         !.ops = ops]
        /\ IF w.threw
           THEN \* the exception leaves performTransition: no reaction is put
                \* on the signals and the snapshots are not cleared
                /\ groups' = cb.groups
                /\ microtasks' = w.microtasks
                /\ trans' = [trans EXCEPT ![t].single = single,
                                          ![t].calls = calls]
           ELSE /\ groups' = clearSavedElementsAndBoundingRects(cb.groups)
                /\ microtasks' = IF names = {}
                                 THEN Append(w.microtasks, Job("transEnd", t, ""))
                                 ELSE w.microtasks
                /\ trans' = [trans EXCEPT ![t] =
                               [state |-> IF names = {} THEN "settled"
                                          ELSE "pending",
                                pending |-> names, single |-> single,
                                calls |-> calls]]

\* The request record kept for each startTransitionSE call.
\*   how   the branch of startTransitionSE the call took
\*   on    the completion future a deferred request was put on
\*   runs  how many times its mutation callback has been invoked
Request(how, on, runs) == [how |-> how, on |-> on, runs |-> runs]

\* Mutant: every request made during a transition is deferred.
DeferAlways(allowDefer_, default) == TRUE

\* Mutant: the argument is ignored, the process-wide default decides.
DeferDefaultOnly(allowDefer_, default) == default

\* const allowDefer = allowDefer_ ?? globalState.allowDefer (line 319)
DeferAllowed(allowDefer_, default) ==
    IF IsDefined(allowDefer_) THEN Get(allowDefer_) ELSE default

\* Element handles a new component can get: never one that is still in a
\* live list, on an overlay or hidden.
InUse == Mounted(groups) \cup hidden \cup {o.elNew : o \in transitionRoot}
Fresh(sc) == (1..sc.elems) \ InUse

\* startTransitionSE(callback, allowDefer_): allowDefer_ is undefined when
\* the argument is omitted.  The callback, when it runs, performs ops and
\* raises an exception if throws.
startTransitionSE(allowDefer_, ops, throws) ==
    LET r     == Len(requests) + 1
        allow == DeferAllowed(allowDefer_, allowDefer)
    IN  IF isTransitioning
        THEN IF allow
             THEN \* previousTransitionFinished.finally(...)
                  /\ IF previousTransitionFinished \in settled
                     THEN /\ microtasks' = Append(microtasks, Job("deferred", r, ""))
                          /\ reactions' = reactions
                     ELSE /\ reactions' = [reactions EXCEPT
                                 ![previousTransitionFinished] = Append(@, r)]
                          /\ microtasks' = microtasks
                  /\ requests' = Append(requests,
                                   Request("deferred", previousTransitionFinished, 0))
                  /\ lastRun' = [NoRun EXCEPT !.call = TRUE, !.arg = allowDefer_]
                  /\ UNCHANGED <<groups, elementState, isTransitioning,
                                 previousTransitionFinished, transitionRoot,
                                 hidden, trans>>
             ELSE /\ requests' = Append(requests, Request("dropped", 0, 0))
                  /\ lastRun' = [NoRun EXCEPT
                                   !.call = TRUE, !.arg = allowDefer_,
                                   !.errors = Report(<<>>, "busy",
                                                     silentlyFail)]
                  /\ UNCHANGED <<groups, elementState, isTransitioning,
                                 previousTransitionFinished, transitionRoot,
                                 hidden, trans, reactions, microtasks>>
        ELSE /\ performTransition(r, ops, throws, microtasks, TRUE, allowDefer_)
             /\ requests' = Append(requests,
                              Request("immediate", 0, 1))
             /\ reactions' = reactions

\* ------------------------------------------------------- event-loop tasks
\* A task runs when the microtask queue is empty.

\* A host call of startTransitionSE with allowDefer_ one of sc.args; sc gives
\* the names and element states the components mounted by callbacks may have.
StartTransition(sc) ==
    /\ microtasks = <<>>
    /\ Len(requests) < sc.requests
    /\ \E a \in sc.args, throws \in sc.throws :
         \E ops \in IF isTransitioning THEN {<<>>}
                    ELSE Scripts(saveElementsAndBoundingRects(groups, elementState),
                                 elementState, Fresh(sc), sc, sc.cbOps) :
            startTransitionSE(a, ops, throws)
    /\ UNCHANGED <<transformProperties, config, settled>>

\* The host code that has just called startTransitionSE calls it again
\* before it returns to the event loop: no promise reaction has run in
\* between.
StartTransitionAgain(sc) ==
    /\ lastRun.call
    /\ microtasks /= <<>>
    /\ Len(requests) < sc.requests
    /\ \E a \in sc.args, throws \in sc.throws :
         \E ops \in IF isTransitioning THEN {<<>>}
                    ELSE Scripts(saveElementsAndBoundingRects(groups, elementState),
                                 elementState, Fresh(sc), sc, sc.cbOps) :
            startTransitionSE(a, ops, throws)
    /\ UNCHANGED <<transformProperties, config, settled>>

\* A component mounts, is disposed or changes its name outside any
\* mutation callback.
Lifecycle(sc) ==
    /\ microtasks = <<>>
    /\ \E o \in ValidOps(groups, Fresh(sc), sc) :
         LET r == ApplyOp(groups, elementState, o, isTransitioning)
         IN  /\ groups' = r.groups
             /\ elementState' = r.elementState
             /\ transitionRoot' = Orphaned(transitionRoot,
                                           DeletedNames(groups, r.groups))
    /\ lastRun' = NoRun
    /\ UNCHANGED <<transformProperties, isTransitioning,
                   previousTransitionFinished, config, hidden,
                   settled, reactions, microtasks, trans, requests>>

\* What the host can hand to SharedElement as props.children, once
\* children(() => props.children) has resolved it: an HTML element, a text
\* node, an array of nodes, a string, a number, a boolean, null or
\* undefined.
Visuals == {"element", "text", "array", "string", "number", "boolean",
            "null", "undefined"}

\* typeof obj
typeOf(obj) ==
    CASE obj \in {"element", "text", "array", "null"} -> "object"
      [] obj = "undefined" -> "undefined"
      [] OTHER -> obj

\* obj instanceof Array
instanceofArray(obj) == obj = "array"

\* export const isElement of Util.ts
isElement(obj) == typeOf(obj) = "object" /\ ~instanceofArray(obj)

\* Whether child().classList.add(...) of line 248 returns: only an element
\* has a classList; on null, and on a text node (whose classList is
\* undefined), the call raises a TypeError.
hasClassList(obj) == obj = "element"

\* Mutant: SharedElement takes any visual.
ConstructsAnything(obj) == TRUE

\* Whether the body of SharedElement (lines 240-306) returns for the visual
\* obj; otherwise it leaves by a TypeError at line 245 or at line 248,
\* before onMount and onCleanup are reached.
Constructs(obj) == isElement(obj) /\ hasClassList(obj)

\* SharedElement is called with the visual v and raises the TypeError; or
\* a component takes a life-cycle step outside any mutation callback, as
\* in Lifecycle, a component that mounts (or is disposed before it mounted)
\* having been constructed from a visual SharedElement accepts.  The step
\* and the visual go into the history.
Component(sc) ==
    /\ microtasks = <<>>
    /\ \/ \E v \in Visuals :
            /\ ~Constructs(v)
            /\ lastRun' = [NoRun EXCEPT !.visual = v, !.threw = TRUE]
            /\ UNCHANGED <<groups, elementState, transitionRoot>>
       \/ \E o \in ValidOps(groups, Fresh(sc), sc) :
            \E v \in {x \in Visuals : Constructs(x)} :
               LET r == ApplyOp(groups, elementState, o, isTransitioning)
               IN  /\ groups' = r.groups
                   /\ elementState' = r.elementState
                   /\ transitionRoot' =
                          Orphaned(transitionRoot,
                                   DeletedNames(groups, r.groups))
                   /\ lastRun' = [NoRun EXCEPT !.op = Some(o),
                                               !.visual = v]
    /\ UNCHANGED <<transformProperties, isTransitioning,
                   previousTransitionFinished, config, hidden,
                   settled, reactions, microtasks, trans, requests>>

\* A host call of setTransformProperty(groupName, props), for a name of
\* sc.overrides and settings of sc.settings.
SetTransformProperty(sc) ==
    /\ microtasks = <<>>
    /\ \E n \in sc.overrides, st \in sc.settings, f \in BOOLEAN :
         /\ transformProperties' =
                setTransformProperty(transformProperties, n, Props(f, st))
         /\ lastRun' = [NoRun EXCEPT !.set = Some(<<n, Props(f, st)>>)]
    /\ UNCHANGED <<groups, elementState, isTransitioning,
                   previousTransitionFinished, config, transitionRoot, hidden,
                   settled, reactions, microtasks, trans, requests>>

\* The components of the first page mount, before the host starts any
\* transition.
Setup(sc) ==
    /\ microtasks = <<>>
    /\ requests = <<>>
    /\ \E n \in sc.names, e \in Least(Fresh(sc)), st \in sc.states :
         LET r == ApplyOp(groups, elementState, Op("mount", n, e, st, ""),
                          isTransitioning)
         IN  /\ groups' = r.groups
             /\ elementState' = r.elementState
    /\ lastRun' = NoRun
    /\ UNCHANGED <<transformProperties, isTransitioning,
                   previousTransitionFinished, config, transitionRoot, hidden,
                   settled, reactions, microtasks, trans, requests>>

\* The signal of overlay o settles as s: its reactions are queued.
Settle(o, anims, s) ==
    /\ transitionRoot' = (transitionRoot \ {o})
                         \cup {[o EXCEPT !.anims = anims, !.signal = s]}
    /\ microtasks' = IF s = "pending" THEN microtasks
                     ELSE Append(microtasks, Job("groupEnd", o.t, o.name))
    /\ lastRun' = NoRun
    /\ UNCHANGED <<groups, elementState, transformProperties, isTransitioning,
                   previousTransitionFinished, config, hidden, settled,
                   reactions, trans, requests>>

\* The engine sees the animations of an overlay only through the one signal
\* Promise.all(animations.map(anim => anim.finished)): which of them ends
\* first makes no difference to it.  The animations of one overlay are
\* therefore taken to end in the order they were started in; overlays are
\* independent of each other.
AnimationOrder == <<"transform", "fadeIn", "fadeOut", "readyOld", "readyNew">>
NextAnimation(o) ==
    AnimationOrder[CHOOSE i \in 1..Len(AnimationOrder) :
                     /\ AnimationOrder[i] \in o.anims
                     /\ \A j \in 1..(i - 1) : AnimationOrder[j] \notin o.anims]

\* An animation of an overlay finishes: anim.finished is fulfilled, and
\* Promise.all(animations.map(anim => anim.finished)) with the last one.
AnimationFinished ==
    /\ microtasks = <<>>
    /\ \E o \in transitionRoot :
         /\ o.signal = "pending"
         /\ Settle(o, o.anims \ {NextAnimation(o)},
                   IF o.anims = {NextAnimation(o)} THEN "fulfilled"
                   ELSE "pending")

\* An animation of an overlay is cancelled (Animation.cancel() by the host):
\* anim.finished is rejected and Promise.all rejects with it at once.
AnimationCancelled ==
    /\ microtasks = <<>>
    /\ \E o \in transitionRoot :
         /\ o.signal = "pending"
         /\ Settle(o, o.anims \ {NextAnimation(o)}, "rejected")

\* -------------------------------------------------------------- microtasks

\* The overlay a groupEnd job belongs to.
OverlayOf(j) == CHOOSE o \in transitionRoot : o.t = j.t /\ o.name = j.name

\* animationsEnd.finally(...) of lines 513-519 and 576-579, then the
\* reaction of Promise.all(animationPromiseList) of line 360: it is
\* fulfilled with the last signal and rejected with the first rejected one.
GroupEnd ==
    /\ microtasks /= <<>>
    /\ Head(microtasks).type = "groupEnd"
    /\ LET j    == Head(microtasks)
           o    == OverlayOf(j)
           left == trans[j.t].pending \ {j.name}
           done == \/ o.signal = "rejected"
                   \/ left = {}
           ends == EndCallbacks(o, groups)
           \* history: the callbacks invoked so far for a transition that
           \* still has an overlay
           log  == [trans EXCEPT ![j.t].calls =
                       IF \E p \in transitionRoot \ {o} : p.t = j.t
                       THEN @ \cup Calls(ends) ELSE {}]
       IN  /\ hidden' = IF o.branch = "pair" THEN hidden \ {o.elNew} ELSE hidden
           /\ transitionRoot' = transitionRoot \ {o}
           /\ IF trans[j.t].state = "pending"
              THEN /\ trans' = [log EXCEPT
                                  ![j.t].state = IF done THEN "settled"
                                                 ELSE "pending",
                                  ![j.t].pending = left]
                   /\ microtasks' = IF done
                                    THEN Append(Tail(microtasks),
                                                Job("transEnd", j.t, ""))
                                    ELSE Tail(microtasks)
              ELSE /\ trans' = log
                   /\ microtasks' = Tail(microtasks)
           /\ lastRun' = [NoRun EXCEPT
                             !.events = ends,
                             !.ended = Some([t |-> o.t, name |-> o.name,
                                             branch |-> o.branch,
                                             twoSided |-> o.elOld /= 0])]
    /\ UNCHANGED <<groups, elementState, transformProperties, isTransitioning,
                   previousTransitionFinished, config, settled, reactions,
                   requests>>

RECURSIVE DeferredJobs(_)
DeferredJobs(rs) ==
    IF rs = <<>> THEN <<>>
    ELSE <<Job("deferred", Head(rs), "")>> \o DeferredJobs(Tail(rs))

\* The finally of line 360-363: the flag is cleared and markFinished()
\* settles the completion future, which queues the reactions put on it.
TransitionEnd ==
    /\ microtasks /= <<>>
    /\ Head(microtasks).type = "transEnd"
    /\ LET t == Head(microtasks).t
       IN  /\ isTransitioning' = FALSE
           /\ settled' = settled \cup {t}
           /\ microtasks' = Tail(microtasks) \o DeferredJobs(reactions[t])
           /\ reactions' = [reactions EXCEPT ![t] = <<>>]
    /\ lastRun' = NoRun
    /\ UNCHANGED <<groups, elementState, transformProperties,
                   previousTransitionFinished, config, transitionRoot, hidden,
                   trans, requests>>

\* The reaction of a deferred request: () => performTransition(callback).
RunDeferred(sc) ==
    /\ microtasks /= <<>>
    /\ Head(microtasks).type = "deferred"
    /\ LET r == Head(microtasks).t
       IN  /\ \E throws \in sc.throws :
                \E ops \in Scripts(saveElementsAndBoundingRects(groups, elementState),
                                   elementState, Fresh(sc), sc, sc.cbOps) :
                   performTransition(r, ops, throws, Tail(microtasks), FALSE,
                                     undefined)
           /\ requests' = [requests EXCEPT ![r].runs = @ + 1]
    /\ UNCHANGED <<transformProperties, config, settled, reactions>>

\* ---------------------------------------------------------- specification

\* maxDependencyDepth: 100 of globalState.
DefaultMaxDependencyDepth == 100
\* The element state of the music bar (App.tsx): both fades disabled.
MusicBarState == [DefaultState EXCEPT !.fadeIn = FALSE, !.fadeOut = FALSE]
\* The values of allowDefer_ and the kinds of life-cycle step.
Args == {undefined, Some(TRUE), Some(FALSE)}
Kinds == {"mount", "cleanup", "rename"}
MountCleanup == {"mount", "cleanup"}
\* One group, whose components have the default settings or the music
\* bar's; the host starts up to MaxReq transitions and may ask for deferral.
AppScope == [names |-> {"A"}, states |-> {DefaultState, MusicBarState},
             requests |-> MaxReq, elems |-> 2, cbOps |-> MaxCbOps,
             throws |-> {FALSE}, args |-> Args, kinds |-> Kinds]

Init == InitWith(FALSE, FALSE, DefaultMaxDependencyDepth)

Next ==
    \/ StartTransition(AppScope)
    \/ Lifecycle(AppScope)
    \/ AnimationFinished
    \/ AnimationCancelled
    \/ GroupEnd
    \/ TransitionEnd
    \/ RunDeferred(AppScope)

Spec == Init /\ [][Next]_vars

\* Two groups animated by the same transition; the host never asks for
\* deferral and no component changes its name.
MaxPairReq == 2
PairScope == [names |-> {"A", "B"}, states |-> {DefaultState},
              requests |-> MaxPairReq, elems |-> 2, cbOps |-> MaxCbOps,
              throws |-> {FALSE}, args |-> {undefined},
              kinds |-> MountCleanup]

PairNext ==
    \/ StartTransition(PairScope)
    \/ Lifecycle(PairScope)
    \/ AnimationFinished
    \/ AnimationCancelled
    \/ GroupEnd
    \/ TransitionEnd

PairSpec == Init /\ [][PairNext]_vars

\* One transition over a page of up to MaxElems components under three
\* names, each depending on nothing, on "A" or on "B" (as PlayPage depends
\* on the music-info groups), with the fades disabled as PlayPage and the
\* music bar have them; the components mount before the transition and
\* only the mutation callback mounts or disposes any afterwards.  The host
\* has set globalState.maxDependencyDepth to
\* WaveMaxDepth, enough scans for every chain over three names.
MaxWaveReq == 1
WaveMaxDepth == 3
DependsOn(deps) == [MusicBarState EXCEPT !.dependencies = deps]
WaveScope == [names |-> Names,
              states |-> {DependsOn({}), DependsOn({"A"}), DependsOn({"B"})},
              requests |-> MaxWaveReq, elems |-> MaxElems,
              cbOps |-> MaxCbOps, throws |-> {FALSE},
              args |-> {undefined}, kinds |-> MountCleanup]

WaveNext ==
    \/ Setup(WaveScope)
    \/ StartTransition(WaveScope)
    \/ AnimationFinished
    \/ AnimationCancelled
    \/ GroupEnd
    \/ TransitionEnd

WaveInit == InitWith(FALSE, FALSE, WaveMaxDepth)

WaveSpec == WaveInit /\ [][WaveNext]_vars

\* The membership tracker seen step by step: components under two names
\* are constructed, mount, are disposed (also before they mounted) and
\* change their names, around one transition.
MaxRegReq == 1
AllKinds == {"mount", "cleanup", "rename", "discard"}
RegistryScope == [names |-> {"A", "B"}, states |-> {DefaultState},
                  requests |-> MaxRegReq, elems |-> 2, cbOps |-> MaxCbOps,
                  throws |-> {FALSE}, args |-> {undefined},
                  kinds |-> AllKinds]

RegistryNext ==
    \/ Component(RegistryScope)
    \/ StartTransition(RegistryScope)
    \/ AnimationFinished
    \/ AnimationCancelled
    \/ GroupEnd
    \/ TransitionEnd

RegistrySpec == Init /\ [][RegistryNext]_vars

\* The reporting policy: the host has set globalState.silentlyFail or left
\* it unset before any transition starts.  Components under two names, with
\* no dependencies or depending on "A" (the one under "A" then waits for
\* itself and is never resolved), mount and are disposed around up to
\* MaxPolicyReq requests, none of which asks for deferral.
MaxPolicyReq == 2
PolicyScope == [names |-> {"A", "B"},
                states |-> {DependsOn({}), DependsOn({"A"})},
                requests |-> MaxPolicyReq, elems |-> 2, cbOps |-> 1,
                throws |-> {FALSE}, args |-> {undefined, Some(FALSE)},
                kinds |-> MountCleanup]

PolicyNext ==
    \/ StartTransition(PolicyScope)
    \/ Lifecycle(PolicyScope)
    \/ AnimationFinished
    \/ AnimationCancelled
    \/ GroupEnd
    \/ TransitionEnd

PolicyInit == \E silent \in BOOLEAN : InitWith(FALSE, silent, WaveMaxDepth)

PolicySpec == PolicyInit /\ [][PolicyNext]_vars

\* The deferral policy: the host has set globalState.allowDefer or left it
\* unset before any transition starts; otherwise as Spec.
DeferInit ==
    \E defer \in BOOLEAN : InitWith(defer, FALSE, DefaultMaxDependencyDepth)

DeferSpec == DeferInit /\ [][Next]_vars

\* The transform overrides: the host sets the override of "A" (disabled,
\* or with `enable` left out) at any time, while components under two
\* names mount, are disposed and change their names around one transition.
MaxTransformReq == 1
TransformScope == [names |-> {"A", "B"},
                   states |-> {DefaultState, MusicBarState},
                   requests |-> MaxTransformReq, elems |-> 2, cbOps |-> 1,
                   throws |-> {FALSE}, args |-> {undefined},
                   kinds |-> Kinds, overrides |-> {"A"},
                   settings |-> {Settings(Some(FALSE)), Settings(undefined)}]

TransformNext ==
    \/ SetTransformProperty(TransformScope)
    \/ StartTransition(TransformScope)
    \/ Lifecycle(TransformScope)
    \/ AnimationFinished
    \/ AnimationCancelled
    \/ GroupEnd
    \/ TransitionEnd

TransformSpec == Init /\ [][TransformNext]_vars

\* Queued requests: components under two names (the music bar's settings)
\* mount before the first request; the host makes up to MaxQueueReq
\* requests, asking for deferral or not, each callback taking up to one
\* life-cycle step.
MaxQueueReq == 3
QueueScope == [names |-> {"A", "B"}, states |-> {MusicBarState},
               requests |-> MaxQueueReq, elems |-> 2, cbOps |-> 1,
               throws |-> {FALSE}, args |-> {undefined, Some(TRUE)},
               kinds |-> MountCleanup]

QueueNext ==
    \/ Setup(QueueScope)
    \/ StartTransition(QueueScope)
    \/ AnimationFinished
    \/ GroupEnd
    \/ TransitionEnd
    \/ RunDeferred(QueueScope)

QueueSpec == Init /\ [][QueueNext]_vars

\* Dependency chains against the depth limit: the page of WaveSpec with up
\* to MaxDepthElems components, the host having set
\* globalState.maxDependencyDepth to any value up to WaveMaxDepth.
MaxDepthElems == 3
DepthScope == [names |-> Names,
               states |-> {DependsOn({}), DependsOn({"A"}), DependsOn({"B"})},
               requests |-> MaxWaveReq, elems |-> MaxDepthElems,
               cbOps |-> MaxCbOps, throws |-> {FALSE},
               args |-> {undefined}, kinds |-> MountCleanup]

DepthNext ==
    \/ Setup(DepthScope)
    \/ StartTransition(DepthScope)
    \/ AnimationFinished
    \/ AnimationCancelled
    \/ GroupEnd
    \/ TransitionEnd

DepthInit == \E depth \in 1..WaveMaxDepth : InitWith(FALSE, FALSE, depth)

DepthSpec == DepthInit /\ [][DepthNext]_vars

\* Ready callbacks that animate the overlay: components under two names
\* with the settings of PlayPage (PlayPage.tsx 84-100: both fades disabled,
\* onAnimationsReady calls state.elGroup.animate) or the default settings
\* mount, are disposed and change their name; the host starts up to
\* MaxReadyReq transitions and may cancel animations.
MaxReadyReq == 1
PlayPageState == [MusicBarState EXCEPT !.readyAnim = TRUE]
ReadyScope == [names |-> {"A", "B"}, states |-> {PlayPageState, DefaultState},
               requests |-> MaxReadyReq, elems |-> 2, cbOps |-> 1,
               throws |-> {FALSE}, args |-> {undefined}, kinds |-> Kinds]

ReadyNext ==
    \/ StartTransition(ReadyScope)
    \/ Lifecycle(ReadyScope)
    \/ AnimationFinished
    \/ AnimationCancelled
    \/ GroupEnd
    \/ TransitionEnd

ReadySpec == Init /\ [][ReadyNext]_vars

\* Mutation callbacks that fail: one group with the music bar's settings;
\* the host makes up to MaxThrowReq requests, asking for deferral or not,
\* and a callback may raise an exception after its life-cycle step.
MaxThrowReq == 3
ThrowScope == [names |-> {"A"}, states |-> {MusicBarState},
               requests |-> MaxThrowReq, elems |-> 2, cbOps |-> 1,
               throws |-> BOOLEAN, args |-> Args, kinds |-> MountCleanup]

ThrowNext ==
    \/ StartTransition(ThrowScope)
    \/ Lifecycle(ThrowScope)
    \/ AnimationFinished
    \/ GroupEnd
    \/ TransitionEnd
    \/ RunDeferred(ThrowScope)

ThrowSpec == Init /\ [][ThrowNext]_vars

\* Calls in a row: one group with the default settings or the music bar's;
\* the host makes up to MaxSyncReq requests, asking for deferral or not,
\* also several in the same task.
MaxSyncReq == 3
SyncScope == [names |-> {"A"}, states |-> {DefaultState, MusicBarState},
              requests |-> MaxSyncReq, elems |-> 2, cbOps |-> 1,
              throws |-> {FALSE}, args |-> Args, kinds |-> MountCleanup]

SyncNext ==
    \/ StartTransition(SyncScope)
    \/ StartTransitionAgain(SyncScope)
    \/ Lifecycle(SyncScope)
    \/ AnimationFinished
    \/ GroupEnd
    \/ TransitionEnd
    \/ RunDeferred(SyncScope)

SyncSpec == Init /\ [][SyncNext]_vars

\* ------------------------------------------------------------------ claims

\* Every animation started so far has settled and every promise reaction
\* has run: nothing more happens unless the host acts.
Quiescent == microtasks = <<>> /\ ~AnimationsRunning

Requests == 1..Len(requests)

\* The step just taken ran performTransition.
Ran == lastRun.t /= 0

\* What one run logged about the group called n.
EventsOf(events, n) == SelectSeq(events, LAMBDA ev : ev.name = n)

\* The names of the groups started in one run, in the order they started.
RECURSIVE StartOrder(_)
StartOrder(events) ==
    IF events = <<>> THEN <<>>
    ELSE (IF Head(events).ev = "start" THEN <<Head(events).name>> ELSE <<>>)
         \o StartOrder(Tail(events))

\* The dependency list of the active element of an entry: of its live
\* element if it has one, of its old snapshot if it has none.
ActiveDeps(g, es) ==
    IF Len(g.elements) = 1 THEN es[g.elements[1]].dependencies
    ELSE IF Len(g.elements) = 0 /\ IsDefined(g.elOld)
    THEN Get(g.elOld).dependencies
    ELSE {}

\* The names with more than one live element.
MultiNames(gs) ==
    {gs[i].name : i \in {k \in 1..Len(gs) : Len(gs[k].elements) > 1}}

\* The names with exactly one live element.
SingleNames(gs) ==
    {gs[i].name : i \in {k \in 1..Len(gs) : Len(gs[k].elements) = 1}}

\* The registry without the entry called n.
Without(gs, n) == RemoveAt(gs, IndexOfName(gs, n, 1))

\* The names in D and the names of the entries that depend on one of them,
\* directly or through other entries.
RECURSIVE DependentsOf(_, _, _)
DependentsOf(gs, es, D) ==
    LET D1 == D \cup {gs[i].name :
                        i \in {k \in 1..Len(gs) :
                                 ActiveDeps(gs[k], es) \cap D /= {}}}
    IN  IF D1 = D THEN D ELSE DependentsOf(gs, es, D1)

\* The names of the entries all of whose dependencies, direct and indirect,
\* can be resolved.
RECURSIVE Resolvable(_, _, _)
Resolvable(gs, es, R) ==
    LET R1 == R \cup {gs[i].name :
                        i \in {k \in 1..Len(gs) :
                                 ActiveDeps(gs[k], es) \subseteq R}}
    IN  IF R1 = R THEN R ELSE Resolvable(gs, es, R1)

\* The single-element groups on a dependency cycle through two or more
\* single-element groups.
OnCycle(gs, es) ==
    LET singles == SelectSeq(gs, LAMBDA g : Len(g.elements) = 1)
    IN  {n \in SingleNames(gs) :
           (ActiveDeps(GetGroup(gs, n), es) \ {n})
               \cap DependentsOf(singles, es, {n}) /= {}}

\* The wave loop of the transition just run, on registry gs with an empty
\* transition root.
Rerun(gs) ==
    WaveLoop(NewWave({}, {}, <<>>, FALSE), gs, elementState,
             transformProperties, lastRun.t, 1, maxDependencyDepth,
             silentlyFail)

\* How run w resolved the group called n.
ResolutionOf(w, n) ==
    [events   |-> EventsOf(w.events, n),
     overlays |-> {o \in w.root : o.name = n},
     signal   |-> n \in Range(w.animationPromiseList)]

\* The transition just run gave the group called n no overlay, no
\* animation, no lifecycle callback and no completion signal.
NothingFor(n) ==
    /\ EventsOf(lastRun.events, n) = <<>>
    /\ \A o \in transitionRoot : ~(o.t = lastRun.t /\ o.name = n)
    /\ n \notin trans[lastRun.t].pending

\* C1: performTransition never begins its snapshot phase while an earlier
\* transition still has per-group animations that have not settled.
C1_NoOverlappingTransition == lastRun.t /= 0 => ~lastRun.overlapped

\* C2: a request deferred behind an in-flight transition runs its mutation
\* callback at most once, only after the completion future it waits on has
\* settled, and has run it exactly once when all animations have settled
\* and all reactions have run.
C2_DeferredRunsExactlyOnce ==
    \A r \in Requests :
        requests[r].how = "deferred" =>
            /\ requests[r].runs <= 1
            /\ requests[r].runs = 1 => requests[r].on \in settled
            /\ Quiescent => requests[r].runs = 1

\* A step that is a startTransitionSE call made while a transition is in
\* flight, with deferral not requested, changes nothing but the history.
C3_DropStep ==
    (/\ lastRun'.call
     /\ isTransitioning
     /\ ~(IF lastRun'.arg = undefined THEN allowDefer ELSE Get(lastRun'.arg)))
    => /\ UNCHANGED <<groups, elementState, isTransitioning,
                      previousTransitionFinished, settled, reactions,
                      microtasks, transitionRoot, hidden, trans>>
       /\ lastRun'.t = 0
       /\ requests' = Append(requests, Request("dropped", 0, 0))
\* C3: a startTransitionSE call made while a transition is in flight, with
\* deferral not requested, changes neither the registry (live lists and old
\* snapshots) nor the in-flight flag nor the completion future nor anything
\* queued on it, and its mutation callback is not invoked then or later.
C3_DroppedNeverRuns ==
    /\ [][C3_DropStep]_vars
    /\ [](\A r \in Requests : requests[r].how = "dropped" => requests[r].runs = 0)
\* A request was dropped and the transition it collided with has since
\* completed.
C3_Witness ==
    \E r \in Requests :
        /\ requests[r].how = "dropped"
        /\ ~isTransitioning
        /\ Quiescent

\* C4: while an overlay built by a transition still has an animation
\* running (its completion signal has not settled), the in-flight flag is
\* true and the completion future of that transition has not settled.
C4_CompletesAfterAllSignals ==
    \A o \in transitionRoot :
        o.signal = "pending" => (isTransitioning /\ o.t \notin settled)

\* C5: once every animation has settled and every reaction has run, the
\* in-flight flag is false and the completion future of every transition
\* that started has settled.
C5_TransitionCompletes ==
    Quiescent =>
        /\ ~isTransitioning
        /\ \A r \in Requests : requests[r].runs > 0 => r \in settled

\* What holds of a step that settles the completion future of transition t.
C6_SettleStep ==
    \A t \in settled' \ settled :
        /\ trans[t].single \cap hidden' = {}
        /\ \A o \in transitionRoot' : o.t /= t
\* C6: in the step that settles the completion future of a transition, the
\* live element of every group that had exactly one live element before
\* and after the mutation callback is without the hidden marker, and no
\* overlay built by that transition is attached to the transition root.
C6_VisibleWhenSettled == [][C6_SettleStep]_vars

\* C7 as stated: a group with more than one live element gets no overlay,
\* no animation, no lifecycle callback and no completion signal, and every
\* other group whose dependency list does not name it is resolved as it is
\* on the registry without the multi-element group.
C7_OthersAsIfAbsent ==
    Ran =>
      \A m \in MultiNames(lastRun.input) :
        /\ NothingFor(m)
        /\ \E present \in {Rerun(lastRun.input)},
              absent \in {Rerun(Without(lastRun.input, m))} :
             /\ present.events = lastRun.events
             /\ \A i \in 1..Len(lastRun.input) :
                  (/\ lastRun.input[i].name /= m
                   /\ m \notin ActiveDeps(lastRun.input[i], elementState))
                  => ResolutionOf(present, lastRun.input[i].name)
                       = ResolutionOf(absent, lastRun.input[i].name)

\* C7: a group with more than one live element gets no overlay, no
\* animation, no lifecycle callback and no completion signal, and every
\* other group that does not depend on it, directly or through other
\* groups, is resolved as it is on the registry without the multi-element
\* group.
C7_IndependentAsIfAbsent ==
    Ran =>
      \A m \in MultiNames(lastRun.input) :
        /\ NothingFor(m)
        /\ \E present \in {Rerun(lastRun.input)},
              absent \in {Rerun(Without(lastRun.input, m))} :
             /\ present.events = lastRun.events
             /\ \A i \in 1..Len(lastRun.input) :
                  lastRun.input[i].name
                      \notin DependentsOf(lastRun.input, elementState, {m})
                  => ResolutionOf(present, lastRun.input[i].name)
                       = ResolutionOf(absent, lastRun.input[i].name)
\* A transition met a multi-element group, started a group that depends on
\* it and started a group that does not.
C7_Witness ==
    /\ Ran
    /\ \E m \in MultiNames(lastRun.input) :
         \E i, j \in 1..Len(lastRun.input) :
            /\ m \in ActiveDeps(lastRun.input[i], elementState)
            /\ EventsOf(lastRun.events, lastRun.input[i].name) /= <<>>
            /\ lastRun.input[j].name
                   \notin DependentsOf(lastRun.input, elementState, {m})
            /\ EventsOf(lastRun.events, lastRun.input[j].name) /= <<>>

\* C8: a group is started only when every name in the dependency list of
\* its active element has been marked resolved earlier in the same
\* transition (started, or skipped for having several live elements); and
\* where the third name depends on the second and the second on the first,
\* the start order is first, second, third whatever the order of the
\* entries in the registry.
C8_DependenciesFirst ==
    Ran =>
      /\ \A i \in 1..Len(lastRun.events) :
           lastRun.events[i].ev = "start" =>
             \A d \in ActiveDeps(GetGroup(lastRun.input,
                                          lastRun.events[i].name),
                                 elementState) :
                \/ d \in MultiNames(lastRun.input)
                \/ \E j \in 1..(i - 1) :
                      /\ lastRun.events[j].ev = "start"
                      /\ lastRun.events[j].name = d
      /\ \A a, b, c \in Names :
           (/\ {a, b, c} = Names
            /\ \A n \in Names : Has(lastRun.input, n)
            /\ MultiNames(lastRun.input) = {}
            /\ ActiveDeps(GetGroup(lastRun.input, a), elementState) = {}
            /\ ActiveDeps(GetGroup(lastRun.input, b), elementState) = {a}
            /\ ActiveDeps(GetGroup(lastRun.input, c), elementState) = {b}
            /\ \A n \in Names :
                  Len(GetGroup(lastRun.input, n).elements) = 0
                  => IsDefined(GetGroup(lastRun.input, n).elOld))
           => StartOrder(lastRun.events) = <<a, b, c>>
\* A chain whose entries are in the registry in the order C, B, A was
\* started in the order A, B, C over three scans.
C8_Witness ==
    /\ Ran
    /\ Len(lastRun.input) = 3
    /\ lastRun.input[1].name = "C"
    /\ lastRun.input[2].name = "B"
    /\ ActiveDeps(lastRun.input[1], elementState) = {"B"}
    /\ ActiveDeps(lastRun.input[2], elementState) = {"A"}
    /\ StartOrder(lastRun.events) = <<"A", "B", "C">>
    /\ lastRun.scans = 3

\* C9: where single-element groups form a dependency cycle, the transition
\* reaches the overflow condition after maxDependencyDepth scans; no group
\* on the cycle gets an overlay or an animation and none of their live
\* elements is hidden; every group whose dependencies can all be resolved
\* is started; and once the animations have settled and the reactions have
\* run, the in-flight flag is false and the completion future has settled.
C9_CycleOverflows ==
    \E cyc \in {OnCycle(groups, elementState)} :
      (requests /= <<>> /\ cyc /= {}) =>
        /\ Ran =>
             /\ lastRun.overflow
             /\ lastRun.scans = maxDependencyDepth
             /\ \A n \in Resolvable(lastRun.input, elementState, {})
                           \ MultiNames(lastRun.input) :
                   EventsOf(lastRun.events, n) /= <<>>
             /\ \A n \in cyc : EventsOf(lastRun.events, n) = <<>>
        /\ \A n \in cyc :
             /\ \A o \in transitionRoot : o.name /= n
             /\ GetGroup(groups, n).elements[1] \notin hidden
        /\ Quiescent =>
             /\ ~isTransitioning
             /\ previousTransitionFinished \in settled

\* What holds of a performTransition step whose callback replaces the one
\* live element e1 of group n by e2.
C10_TransferStep ==
    \A n \in Names, e1, e2 \in Elems :
        (/\ lastRun'.t /= 0
         /\ e1 /= e2
         /\ Has(groups, n)
         /\ GetGroup(groups, n).elements = <<e1>>
         /\ elementState[e1] = DefaultState
         /\ Has(lastRun'.input, n)
         /\ GetGroup(lastRun'.input, n).elements = <<e2>>
         /\ elementState'[e2] = DefaultState
         /\ transformProperties[n] = undefined)
        => \E o \in transitionRoot' :
              /\ \A p \in transitionRoot' :
                    (p.t = lastRun'.t /\ p.name = n) <=> p = o
              /\ o.started = {"transform", "fadeIn", "fadeOut"}
              /\ o.from = Some(RectOf(e1))
              /\ o.to = Some(RectOf(e2))
              /\ o.elOld = e1
              /\ o.elNew = e2
\* C10: a transition whose callback replaces the one live element of a
\* group by another under the same name, both with the default settings
\* and no transform override, attaches exactly one overlay for the group,
\* with exactly three animations: the interpolation from the old rectangle
\* to the new one, the fade-out of the old clone and the fade-in of the new
\* clone; and an overlay whose animations have settled is removed before
\* the next task runs.
C10_TransferAnimations ==
    /\ [][C10_TransferStep]_vars
    /\ [](\A o \in transitionRoot :
             o.signal /= "pending" => microtasks /= <<>>)

\* The live list of the entry called n, empty where there is no entry.
LiveList(gs, n) == IF Has(gs, n) THEN GetGroup(gs, n).elements ELSE <<>>

\* The entries of gs other than the one called n.
Others(gs, n) == SelectSeq(gs, LAMBDA g : g.name /= n)

\* The component step recorded in the history is a step of kind k that
\* did not fail.
Took(run, k) == IsDefined(run.op) /\ Get(run.op).op = k /\ ~run.threw

\* What holds of a step in which a component registers (mountAction).
C11_RegisterStep ==
    Took(lastRun', "mount") =>
        \E n \in {Get(lastRun'.op).name}, e \in {Get(lastRun'.op).el} :
            /\ Has(groups', n)
            /\ LiveList(groups', n) = Append(LiveList(groups, n), e)
            /\ Has(groups, n) =>
                  /\ GetGroup(groups', n).elOld = GetGroup(groups, n).elOld
                  /\ GetGroup(groups', n).rectOld = GetGroup(groups, n).rectOld
            /\ Others(groups', n) = Others(groups, n)
            /\ isTransitioning' = isTransitioning
\* What holds of a step in which a mounted component unregisters
\* (cleanupAction).
C11_UnregisterStep ==
    Took(lastRun', "cleanup") =>
        \E n \in {Get(lastRun'.op).name}, e \in {Get(lastRun'.op).el} :
            \E rest \in {RemoveAt(LiveList(groups, n),
                                  FindIndex(LiveList(groups, n), e, 1))} :
                /\ LiveList(groups', n) = rest
                /\ ~Has(groups', n) <=> (rest = <<>> /\ ~isTransitioning)
                /\ Others(groups', n) = Others(groups, n)
\* C11: registering e under a name with no entry creates an entry whose
\* live list is exactly [e]; under a name with an entry it appends e at the
\* end and leaves the entry's old snapshot, every other entry and the
\* in-flight flag unchanged.  Unregistering e removes exactly the first
\* element of the live list that is e, and deletes the entry if and only if
\* the live list is then empty and no transition is in flight.
C11_RegisterUnregister ==
    /\ [][C11_RegisterStep]_vars
    /\ [][C11_UnregisterStep]_vars
\* A component has just unregistered the last element of its group while a
\* transition is in flight: the entry stays, with an empty live list.
C11_Witness ==
    /\ Took(lastRun, "cleanup")
    /\ isTransitioning
    /\ Has(groups, Get(lastRun.op).name)
    /\ LiveList(groups, Get(lastRun.op).name) = <<>>
    /\ Len(groups) = 2

\* What holds of a step in which a component that is in no live list
\* unregisters.
C12_AbsentStep == Took(lastRun', "discard") => groups' = groups
\* C12: unregistering e under a name whose live list does not hold e (the
\* name has no entry, or its entry does not hold e) leaves the whole
\* registry unchanged, in every reachable registry; and unregistering twice
\* in a row gives the registry that unregistering once gives.
C12_UnregisterAbsentNoOp ==
    /\ [][C12_AbsentStep]_vars
    /\ [](\A n \in Names, e \in Elems :
             cleanupAction(cleanupAction(groups, isTransitioning, n, e),
                           isTransitioning, n, e)
               = cleanupAction(groups, isTransitioning, n, e))

\* How many places of the live lists of gs hold e.
Occurrences(gs, e) ==
    Cardinality({p \in UNION {{<<i, k>> : k \in 1..Len(gs[i].elements)} :
                                 i \in 1..Len(gs)} :
                    gs[p[1]].elements[p[2]] = e})

\* The elements a list of steps disposes.
Disposed(ops) ==
    {ops[i].el : i \in {k \in 1..Len(ops) : ops[k].op \in {"cleanup", "discard"}}}

\* What holds of a step in which a component changes its name outside any
\* mutation callback: the next scheduler step finds its element in the
\* live list of the new name and in no other.
C13_RenameStep ==
    Took(lastRun', "rename") =>
        \E o \in {Get(lastRun'.op)} :
            /\ Occurrences(groups, o.el) = 1
            /\ Occurrences(groups', o.el) = 1
            /\ o.el \in Range(LiveList(groups', o.name))
            /\ o.el \notin Range(LiveList(groups', o.from))
\* What holds of a performTransition step: the snapshot phase (on the
\* registry before the step) and the classification scans (on the registry
\* the callback left) each find every element in at most one live list, and
\* in exactly one if it was mounted and the callback did not dispose it,
\* whatever names the callback changed.
C13_TransitionStep ==
    lastRun'.t /= 0 =>
        \A e \in Elems :
            /\ Occurrences(groups, e) <= 1
            /\ Occurrences(lastRun'.input, e) <= 1
            /\ (e \in Mounted(groups) /\ e \notin Disposed(lastRun'.ops))
                 => Occurrences(lastRun'.input, e) = 1
\* C13: when the declared name of an element changes, its removal from the
\* live list of the old name and its append to the live list of the new
\* name happen with no scheduler step in between: no snapshot phase and no
\* classification scan finds the element in both lists or in neither.
C13_RenameAtomic ==
    /\ [][C13_RenameStep]_vars
    /\ [][C13_TransitionStep]_vars
    /\ [](\A e \in Elems : Occurrences(groups, e) <= 1)
\* A transition whose mutation callback changed the name of a mounted
\* element has started the group of the new name.
C13_Witness ==
    /\ Ran
    /\ \E i \in 1..Len(lastRun.ops) :
          /\ lastRun.ops[i].op = "rename"
          /\ lastRun.ops[i].el \in Range(LiveList(lastRun.input,
                                                   lastRun.ops[i].name))
          /\ \E k \in 1..Len(lastRun.events) :
                /\ lastRun.events[k].ev = "start"
                /\ lastRun.events[k].name = lastRun.ops[i].name

\* C14: whenever no transition is in flight, every registry entry has at
\* least one live element: an entry that lost its last live element during
\* a transition is gone once that transition has completed.
C14_NoEmptyEntryAtRest ==
    ~isTransitioning =>
        \A i \in 1..Len(groups) : Len(groups[i].elements) >= 1

\* A step removes no entry that holds an old snapshot.
C15_KeepStep ==
    \A i \in 1..Len(groups) :
        IsDefined(groups[i].elOld) => Has(groups', groups[i].name)
\* What holds of a performTransition step for every group the snapshot
\* phase takes a snapshot of (one live element): the registry the wave loop
\* scans still has the entry with its snapshot, and if the callback emptied
\* the group the wave loop treats it as a disappearance (the old side's
\* ready callback is invoked with isSingle).
C15_TransitionStep ==
    lastRun'.t /= 0 =>
        \A i \in 1..Len(groups) :
            Len(groups[i].elements) = 1 =>
                \E n \in {groups[i].name} :
                    /\ Has(lastRun'.input, n)
                    /\ IsDefined(GetGroup(lastRun'.input, n).elOld)
                    /\ LiveList(lastRun'.input, n) = <<>> =>
                          \E k \in 1..Len(lastRun'.events) :
                              lastRun'.events[k]
                                = Event("ready", n, "out", TRUE,
                                        lastRun'.events[k].scan)
\* C15: a registry entry is never deleted while it holds an old snapshot:
\* an unregister issued from inside the mutation callback that empties a
\* group of which a snapshot was taken leaves the entry in place, and the
\* wave loop of the same transition finds it and classifies it as a
\* disappearance.
C15_SnapshotEntryKept ==
    /\ [][C15_KeepStep]_vars
    /\ [][C15_TransitionStep]_vars

\* How many events of a list are invocations of the callback ev in role
\* `role` for the group called n.
CountOf(events, ev, n, role) ==
    Cardinality({k \in 1..Len(events) :
                    /\ events[k].ev = ev
                    /\ events[k].name = n
                    /\ events[k].role = role})

\* C16: when all animations on the overlay of a group have settled, each
\* side's end callback is invoked exactly once: for a two-sided overlay
\* (old snapshot and one live element) the old side's (role out) and the
\* new side's (role in), for a disappearance the old side's.
C16_EndCallbacksOnce ==
    IsDefined(lastRun.ended) =>
        \E o \in {Get(lastRun.ended)} :
            /\ (o.branch = "pair" /\ o.twoSided) =>
                  /\ CountOf(lastRun.events, "end", o.name, "out") = 1
                  /\ CountOf(lastRun.events, "end", o.name, "in") = 1
            /\ o.branch = "old" =>
                  CountOf(lastRun.events, "end", o.name, "out") = 1

\* What holds of a performTransition step: no ready callback is invoked
\* twice for the same group and side.
C17_ReadyStep ==
    lastRun'.t /= 0 =>
        \A n \in Names, role \in {"in", "out"} :
            CountOf(lastRun'.events, "ready", n, role) <= 1
\* What holds of a step in which the finally of an overlay runs: an end
\* callback it invokes has not been invoked before in that transition for
\* the same group and side, and the ready callback of that side has.
C17_EndStep ==
    IsDefined(lastRun'.ended) =>
        \E o \in {Get(lastRun'.ended)} :
            \A role \in {"in", "out"} :
                /\ CountOf(lastRun'.events, "end", o.name, role) <= 1
                /\ CountOf(lastRun'.events, "end", o.name, role) = 1 =>
                      /\ <<"end", o.name, role>> \notin trans[o.t].calls
                      /\ <<"ready", o.name, role>> \in trans[o.t].calls
\* C17: within one transition no ready callback and no end callback is
\* invoked more than once for the same group and side, and a side's end
\* callback is never invoked before that side's ready callback.
C17_CallbacksOnceInOrder ==
    /\ [][C17_ReadyStep]_vars
    /\ [][C17_EndStep]_vars

\* C18: with silent-failure mode enabled a group with more than one live
\* element reports no error during resolution, with silent-failure mode
\* disabled it reports one; either way it gets no animation and is marked
\* resolved.
C18_MultipleSilenced ==
    Ran =>
        /\ \A m \in MultiNames(lastRun.input) :
              /\ NothingFor(m)
              /\ m \in Range(Rerun(lastRun.input).groupsReady)
        /\ Len(SelectSeq(lastRun.errors, LAMBDA msg : msg = "multiple"))
             = IF silentlyFail THEN 0
               ELSE Cardinality(MultiNames(lastRun.input))

\* A startTransitionSE call made while a transition is in flight, with
\* deferral not requested, is dropped, and reports exactly when
\* silent-failure mode is disabled.
C19_DropStep ==
    (/\ lastRun'.call
     /\ isTransitioning
     /\ ~(IF lastRun'.arg = undefined THEN allowDefer ELSE Get(lastRun'.arg)))
    => /\ lastRun'.errors = IF silentlyFail THEN <<>> ELSE <<"busy">>
       /\ lastRun'.t = 0
       /\ requests' = Append(requests, Request("dropped", 0, 0))
       /\ UNCHANGED <<groups, isTransitioning, previousTransitionFinished,
                      reactions, microtasks, transitionRoot>>
\* The wave loop of the transition just run, with silent-failure mode set
\* to `silent`.
RerunWith(silent) ==
    WaveLoop(NewWave({}, {}, <<>>, FALSE), lastRun.input, elementState,
             transformProperties, lastRun.t, 1, maxDependencyDepth, silent)
\* C19: a dropped request (transition in flight, no deferral) and a
\* dependency overflow each report an error exactly when silent-failure
\* mode is disabled; the mode changes only the reporting: the request is
\* dropped either way, and the wave loop is aborted after
\* maxDependencyDepth scans, with the same groups started, either way.
C19_SilentOnlyReporting ==
    /\ [][C19_DropStep]_vars
    /\ [](Ran =>
            /\ lastRun.overflow =>
                  /\ lastRun.scans = maxDependencyDepth
                  /\ Len(SelectSeq(lastRun.errors, LAMBDA msg : msg = "depth"))
                       = IF silentlyFail THEN 0 ELSE 1
            /\ ~lastRun.overflow => "depth" \notin Range(lastRun.errors)
            /\ \E loud \in {RerunWith(FALSE)}, quiet \in {RerunWith(TRUE)} :
                  /\ [loud EXCEPT !.errors = <<>>]
                       = [quiet EXCEPT !.errors = <<>>]
                  /\ lastRun.events = quiet.events
                  /\ lastRun.overflow = quiet.overflow)
\* In silent-failure mode a request has just been dropped without a report
\* while a transition is in flight whose wave loop was aborted: the
\* component under "A" waits for itself and has no overlay, the one under
\* "B" is animating.
C19_Witness ==
    /\ silentlyFail
    /\ lastRun.call
    /\ requests[Len(requests)].how = "dropped"
    /\ lastRun.errors = <<>>
    /\ Has(groups, "A")
    /\ Len(LiveList(groups, "A")) = 1
    /\ "A" \in ActiveDeps(GetGroup(groups, "A"), elementState)
    /\ \A o \in transitionRoot : o.name = "B" /\ o.signal = "pending"
    /\ transitionRoot /= {}

\* What holds of a step in which SharedElement is called with a visual
\* that is not a single element.
C20_RejectStep ==
    lastRun'.visual \notin {"", "element"} =>
        /\ lastRun'.threw
        /\ UNCHANGED <<groups, elementState, isTransitioning,
                       previousTransitionFinished, settled, reactions,
                       microtasks, transitionRoot, hidden, trans, requests>>
\* C20: if the visual handed to SharedElement is not a single element, a
\* TypeError is raised synchronously to the constructing caller before any
\* registry mutation: no registry entry is created or changed, and the
\* in-flight flag and the completion future are unchanged.
C20_NotAnElementThrows == [][C20_RejectStep]_vars
\* SharedElement has just raised the TypeError for an array of nodes while
\* a transition is in flight and the registry holds two entries.
C20_Witness ==
    /\ lastRun.visual = "array"
    /\ lastRun.threw
    /\ isTransitioning
    /\ Len(groups) = 2

\* What holds of a startTransitionSE call made while a transition is in
\* flight: an explicit argument decides, the process-wide default only when
\* the argument is omitted.
C21_DeferStep ==
    (lastRun'.call /\ isTransitioning) =>
        \E how \in {requests'[Len(requests')].how} :
            /\ Len(requests') = Len(requests) + 1
            /\ how \in {"dropped", "deferred"}
            /\ lastRun'.arg = Some(FALSE) => how = "dropped"
            /\ lastRun'.arg = Some(TRUE) => how = "deferred"
            /\ lastRun'.arg = undefined =>
                  (how = "deferred" <=> allowDefer)
\* C21: the explicit allowDefer argument of startTransitionSE, when given,
\* overrides the process-wide default in both directions: explicit false
\* drops the request even when the default is to defer, explicit true
\* defers it even when the default is to drop; the default decides only
\* when the argument is omitted.
C21_ArgumentOverridesDefault == [][C21_DeferStep]_vars
\* With the default set to defer, a request made in flight with an explicit
\* false has just been dropped.
C21_Witness ==
    /\ allowDefer
    /\ lastRun.call
    /\ lastRun.arg = Some(FALSE)
    /\ isTransitioning
    /\ requests[Len(requests)].how = "dropped"

\* What holds of every step: a setTransformProperty(name, props) call
\* makes getTransformProperty(name) the settings it was given, leaves the
\* overrides of the other names alone and changes nothing in the registry
\* or the in-flight state; every other step leaves the mapping unchanged.
C22_OverrideStep ==
    IF IsDefined(lastRun'.set)
    THEN \E n \in {Get(lastRun'.set)[1]}, props \in {Get(lastRun'.set)[2]} :
            /\ getTransformProperty(transformProperties', n)
                 = Some(props.settings)
            /\ \A m \in Names \ {n} :
                  getTransformProperty(transformProperties', m)
                    = getTransformProperty(transformProperties, m)
            /\ UNCHANGED <<groups, elementState, isTransitioning,
                           previousTransitionFinished, settled, reactions,
                           microtasks, transitionRoot, hidden, trans,
                           requests>>
    ELSE UNCHANGED transformProperties
\* C22: getTransformProperty(name) returns the value given to the most
\* recent setTransformProperty(name, ...) call, or undefined if none was
\* made; the mapping is unaffected by register, unregister, rename and
\* transitions (it survives the deletion of the group entry), and
\* setTransformProperty changes nothing in the registry or the in-flight
\* state.
C22_OverrideMapping ==
    /\ \A n \in Names : getTransformProperty(transformProperties, n) = undefined
    /\ [][C22_OverrideStep]_vars
\* The override of "A" has been set twice, the second time while a
\* transition was in flight, and the entry of "A" has since been deleted.
C22_Witness ==
    /\ getTransformProperty(transformProperties, "A")
         = Some(Settings(Some(FALSE)))
    /\ ~Has(groups, "A")
    /\ Has(groups, "B")
    /\ requests /= <<>>
    /\ ~isTransitioning

\* C23: during the wave loop a registry entry with no live element and no
\* old snapshot produces no overlay, no animation, no callback and no
\* error, and the scan continues normally with the remaining groups: the
\* loop is not left by an exception and every other group with one live
\* element and no dependencies is started.
C23_EmptyEntrySkipped ==
    Ran =>
        \A i \in 1..Len(lastRun.input) :
            (/\ lastRun.input[i].elements = <<>>
             /\ ~IsDefined(lastRun.input[i].elOld))
            => /\ NothingFor(lastRun.input[i].name)
               /\ lastRun.errors = <<>>
               /\ ~lastRun.threw
               /\ \A k \in 1..Len(lastRun.input) :
                     (/\ Len(lastRun.input[k].elements) = 1
                      /\ ActiveDeps(lastRun.input[k], elementState) = {})
                     => EventsOf(lastRun.events, lastRun.input[k].name) /= <<>>

\* What holds of a performTransition step, `saved` being the registry
\* when its snapshot phase has run: an entry holds an old snapshot and
\* rectangle exactly if it has one live element; the snapshot is that
\* element's settings and dependency list and the rectangle its place; and
\* the registry the callback leaves has the same snapshots.
C24_SnapshotStep ==
    lastRun'.t /= 0 =>
        \E saved \in {saveElementsAndBoundingRects(groups, elementState)} :
            \A i \in 1..Len(groups) :
                /\ IsDefined(saved[i].elOld) <=> Len(groups[i].elements) = 1
                /\ IsDefined(saved[i].rectOld) <=> Len(groups[i].elements) = 1
                /\ Len(groups[i].elements) = 1 =>
                      \E e \in {groups[i].elements[1]} :
                          /\ Get(saved[i].elOld).el = e
                          /\ Get(saved[i].elOld).dependencies
                               = elementState[e].dependencies
                          /\ Get(saved[i].elOld).fadeIn = elementState[e].fadeIn
                          /\ Get(saved[i].elOld).fadeOut = elementState[e].fadeOut
                          /\ Get(saved[i].elOld).readyAnim
                               = elementState[e].readyAnim
                          /\ saved[i].rectOld = Some(RectOf(e))
                /\ Has(lastRun'.input, groups[i].name)
                /\ GetGroup(lastRun'.input, groups[i].name).elOld
                     = saved[i].elOld
                /\ GetGroup(lastRun'.input, groups[i].name).rectOld
                     = saved[i].rectOld
\* C24: immediately after the snapshot phase a group holds an old snapshot
\* and rectangle if and only if it had exactly one live element at that
\* moment; the snapshot carries that element's callbacks, fade settings and
\* dependency list as they were at that moment, and changes made afterwards
\* by the mutation callback do not alter it.
C24_SnapshotIffSingle == [][C24_SnapshotStep]_vars

\* The roles and isSingle flags of the ready callbacks a run invoked for
\* the group called n, in the order of the calls.
RECURSIVE ReadyStates(_, _)
ReadyStates(events, n) ==
    IF events = <<>> THEN <<>>
    ELSE (IF Head(events).ev = "ready" /\ Head(events).name = n
          THEN <<[role |-> Head(events).role,
                  isSingle |-> Head(events).isSingle]>>
          ELSE <<>>)
         \o ReadyStates(Tail(events), n)

\* The ready callbacks the classification of entry g prescribes.
C25_Prescribed(g) ==
    IF Len(g.elements) = 1 /\ IsDefined(g.elOld)
    THEN <<[role |-> "out", isSingle |-> FALSE],
           [role |-> "in", isSingle |-> FALSE]>>
    ELSE IF Len(g.elements) = 1
    THEN <<[role |-> "in", isSingle |-> TRUE]>>
    ELSE IF Len(g.elements) = 0 /\ IsDefined(g.elOld)
    THEN <<[role |-> "out", isSingle |-> TRUE]>>
    ELSE <<>>

\* C25: the state passed to ready callbacks follows the classification by
\* (live count after the callback, snapshot present): a transfer gives the
\* old side role out with isSingle false and the new side role in with
\* isSingle false; a first appearance invokes only the new side, with role
\* in and isSingle true; a disappearance invokes only the old side, with
\* role out and isSingle true.
C25_ReadyStateByClass ==
    Ran =>
        \A i \in 1..Len(lastRun.input) :
            \E called \in {ReadyStates(lastRun.events,
                                       lastRun.input[i].name)} :
                called /= <<>> => called = C25_Prescribed(lastRun.input[i])

\* A run that started a transfer and a one-sided group.
C25_Witness ==
    /\ Ran
    /\ \E i, k \in 1..Len(lastRun.input) :
          /\ Len(ReadyStates(lastRun.events, lastRun.input[i].name)) = 2
          /\ Len(lastRun.input[k].elements) = 1
          /\ ~IsDefined(lastRun.input[k].elOld)
          /\ Len(ReadyStates(lastRun.events, lastRun.input[k].name)) = 1

\* The wave loop of the transition just run, stopped after at most k scans.
RerunTo(k) ==
    WaveLoop(NewWave({}, {}, <<>>, FALSE), lastRun.input, elementState,
             transformProperties, lastRun.t, 1, k, TRUE)

\* The scan of the transition just run in which the group called n was
\* marked resolved; 0 if it never was.
ResolvedIn(n) ==
    LET ks == {k \in 1..lastRun.scans : n \in Range(RerunTo(k).groupsReady)}
    IN  IF ks = {} THEN 0 ELSE CHOOSE k \in ks : \A j \in ks : k <= j

\* The scans in which the transition just run started the group called n.
StartedIn(n) ==
    {lastRun.events[i].scan :
        i \in {k \in 1..Len(lastRun.events) :
                 /\ lastRun.events[k].ev = "start"
                 /\ lastRun.events[k].name = n}}

\* The groups the transition just run started although their active
\* element names dependencies, as triples of the entry's place in the
\* registry, the scan it started in and one of its dependencies.
StartedDependents ==
    {<<i, s, d>> \in (1..Len(lastRun.input)) \X (1..lastRun.scans) \X Names :
        /\ s \in StartedIn(lastRun.input[i].name)
        /\ d \in ActiveDeps(lastRun.input[i], elementState)}

UnresolvedAfter(k) ==
    {lastRun.input[i].name : i \in 1..Len(lastRun.input)}
        \ Range(RerunTo(k).groupsReady)

\* C27: the wave loop always terminates: it performs at most
\* maxDependencyDepth scans per transition, stops after the first scan in
\* which no group was skipped, and reaches the overflow branch if and only
\* if some group is still unresolved after maxDependencyDepth scans.
C27_WaveLoopBounded ==
    Ran =>
        /\ lastRun.scans <= maxDependencyDepth
        /\ \A k \in 1..(lastRun.scans - 1) : UnresolvedAfter(k) /= {}
        /\ ~lastRun.overflow => UnresolvedAfter(lastRun.scans) = {}
        /\ lastRun.overflow <=> UnresolvedAfter(maxDependencyDepth) /= {}

\* The same of the runs in which no exception left the loop.
C27_UnlessThrown == (Ran /\ ~lastRun.threw) => C27_WaveLoopBounded

\* The names of the entries of registry gs.
NamesOf(gs) == {gs[i].name : i \in 1..Len(gs)}

\* The names D and the names reachable from them along dependency lists.
RECURSIVE DependenciesOf(_, _, _)
DependenciesOf(gs, es, D) ==
    LET D1 == D \cup UNION {ActiveDeps(gs[i], es) :
                               i \in {k \in 1..Len(gs) : gs[k].name \in D}}
    IN  IF D1 = D THEN D ELSE DependenciesOf(gs, es, D1)

\* No entry of gs depends on itself, directly or through other entries.
Acyclic(gs, es) ==
    \A i \in 1..Len(gs) :
        gs[i].name \notin DependenciesOf(gs, es, ActiveDeps(gs[i], es))

\* Every dependency names an entry of gs.
AllRegistered(gs, es) ==
    \A i \in 1..Len(gs) : ActiveDeps(gs[i], es) \subseteq NamesOf(gs)

\* The number of groups on the longest dependency chain that ends at the
\* entry called n, in an acyclic registry whose dependencies are registered.
RECURSIVE ChainLength(_, _, _)
ChainLength(gs, es, n) ==
    LET below == {ChainLength(gs, es, d) : d \in ActiveDeps(GetGroup(gs, n), es)}
    IN  IF below = {} THEN 1
        ELSE 1 + CHOOSE m \in below : \A l \in below : l <= m

\* The registry of the transition just run meets the conditions of C28.
C28_Shallow ==
    /\ Acyclic(lastRun.input, elementState)
    /\ AllRegistered(lastRun.input, elementState)
    /\ \A n \in NamesOf(lastRun.input) :
          ChainLength(lastRun.input, elementState, n) <= maxDependencyDepth

\* C28: for an acyclic dependency graph in which every dependency names a
\* registered group and the longest dependency chain has at most
\* maxDependencyDepth groups, every group is resolved and the overflow
\* branch is not reached, for every iteration order of the registry.
C28_ShallowGraphResolves ==
    (Ran /\ C28_Shallow) =>
        /\ UnresolvedAfter(lastRun.scans) = {}
        /\ ~lastRun.overflow

\* The same of the runs in which no exception left the loop.
C28_UnlessThrown == (Ran /\ ~lastRun.threw) => C28_ShallowGraphResolves

\* The places in the registry of the transition just run of the entries
\* with several live elements that its first scan visits: no entry before
\* them makes the scan raise an exception.
VisitedSeveral ==
    {i \in 1..Len(lastRun.input) :
        /\ Len(lastRun.input[i].elements) > 1
        /\ \A j \in 1..(i - 1) :
              \/ lastRun.input[j].elements /= <<>>
              \/ IsDefined(lastRun.input[j].elOld)}

\* The places of the entries with an active element that names the group
\* at place i among its dependencies, all of them resolved by the
\* transition just run.
RunnableDependents(i) ==
    {k \in 1..Len(lastRun.input) :
        /\ lastRun.input[i].name \in ActiveDeps(lastRun.input[k], elementState)
        /\ \A d \in ActiveDeps(lastRun.input[k], elementState) :
              ResolvedIn(d) > 0}

\* C29: a group with more than one live element is marked resolved in the
\* first scan that visits it, regardless of the dependency lists of its
\* own elements, so a group that depends on it becomes runnable and is
\* animated (read of the dependents all of whose dependencies are resolved,
\* in the runs the depth limit does not end).
C29_SeveralResolvedAtOnce ==
    Ran =>
        \A i \in VisitedSeveral :
            /\ ResolvedIn(lastRun.input[i].name) = 1
            /\ ~lastRun.overflow =>
                  \A k \in RunnableDependents(i) :
                      StartedIn(lastRun.input[k].name) /= {}

\* The same of the runs in which no exception left the loop.
C29_UnlessThrown == (Ran /\ ~lastRun.threw) => C29_SeveralResolvedAtOnce

\* A run in which a group of several, an element of which names the group
\* itself as its dependency, was resolved and a dependent of it started.
C29_UnlessThrownWitness ==
    /\ Ran
    /\ ~lastRun.threw
    /\ \E i \in VisitedSeveral :
          /\ lastRun.input[i].name
               \in elementState[lastRun.input[i].elements[1]].dependencies
          /\ \E k \in RunnableDependents(i) :
                StartedIn(lastRun.input[k].name) /= {}

\* The override stored under the group name n disables the geometric
\* interpolation.
DisabledFor(n) ==
    /\ IsDefined(transformProperties[n])
    /\ Get(transformProperties[n]).enable = Some(FALSE)

\* The wrappers the transition just run built for the group called n.
WrappersOf(n) == {o \in transitionRoot : o.t = lastRun.t /\ o.name = n}

\* C30: the wrapper's geometric interpolation is started for a group if and
\* only if the group has both an old snapshot and exactly one live element
\* and the per-group transform override does not disable it; it is never
\* started for a first appearance or a disappearance, and the override
\* consulted is the one keyed by the group name, not a setting of either
\* element.
C30_TransformIffPairEnabled ==
    Ran =>
        \A i \in 1..Len(lastRun.input) :
            \A o \in WrappersOf(lastRun.input[i].name) :
                "transform" \in o.started
                    <=> /\ IsDefined(lastRun.input[i].elOld)
                        /\ Len(lastRun.input[i].elements) = 1
                        /\ ~DisabledFor(lastRun.input[i].name)

\* A run that started two transfers whose elements have the same settings,
\* one with the geometric interpolation and, its name having an override
\* that disables it, one without.
C30_Witness ==
    /\ Ran
    /\ \E i, k \in 1..Len(lastRun.input) :
          /\ Len(lastRun.input[i].elements) = 1
          /\ Len(lastRun.input[k].elements) = 1
          /\ IsDefined(lastRun.input[i].elOld)
          /\ IsDefined(lastRun.input[k].elOld)
          /\ elementState[lastRun.input[i].elements[1]]
               = elementState[lastRun.input[k].elements[1]]
          /\ DisabledFor(lastRun.input[i].name)
          /\ \E o \in WrappersOf(lastRun.input[i].name) :
                "transform" \notin o.started
          /\ \E o \in WrappersOf(lastRun.input[k].name) :
                "transform" \in o.started

\* A run that built a wrapper for a first appearance and one for a
\* disappearance.
C30_OneSided ==
    /\ Ran
    /\ \E i, k \in 1..Len(lastRun.input) :
          /\ Len(lastRun.input[i].elements) = 1
          /\ ~IsDefined(lastRun.input[i].elOld)
          /\ WrappersOf(lastRun.input[i].name) /= {}
          /\ lastRun.input[k].elements = <<>>
          /\ WrappersOf(lastRun.input[k].name) /= {}

\* C31: for every animated group that has a live new element, the live
\* element carries the hidden marker in every state in which an overlay for
\* that group is attached to the transition root, for any sequence of
\* immediate and deferred transitions; the marker is put on when the
\* overlay is attached and taken off only when the overlay's animations
\* have settled.
C31_HiddenWhileOverlay ==
    \A o \in transitionRoot :
        (o.branch = "pair" /\ o.elNew \in Mounted(groups))
            => o.elNew \in hidden

\* The animations a ready callback started on overlay o that have not
\* settled.
ReadyAnimations(o) == o.anims \cap {"readyOld", "readyNew"}

\* C32: an animation started on a group's overlay by a ready callback is
\* included in that group's completion signal: the group's end callbacks,
\* the unhiding of the live element, the removal of the overlay and the
\* transition's completion all wait until that animation has settled.
C32_ReadyAnimationAwaited ==
    \A o \in transitionRoot :
        ReadyAnimations(o) /= {}
            => /\ o.signal = "pending"
               /\ trans[o.t].state /= "settled"

\* No entry of registry gs holds an old snapshot or rectangle.
NoSnapshots(gs) ==
    \A i \in 1..Len(gs) :
        ~IsDefined(gs[i].elOld) /\ ~IsDefined(gs[i].rectOld)

\* A performTransition that returns normally leaves no snapshot behind.
C33_ReturnStep ==
    (lastRun'.t /= 0 /\ ~lastRun'.threw) => NoSnapshots(groups')

\* No other step (a life-cycle step, the end of an animation, an end
\* callback, a completion continuation, a request that is deferred or
\* dropped) brings a snapshot into being.
C33_LoopStep ==
    (lastRun'.t = 0 /\ NoSnapshots(groups)) => NoSnapshots(groups')

\* C33: old snapshots and rectangles exist only inside the synchronous run
\* of one transition start: whenever a transition start has returned
\* normally and control is back in the event loop (including when end
\* callbacks and completion continuations run), every group's old snapshot
\* and rectangle are absent.
C33_SnapshotsOnlyInsideStart ==
    NoSnapshots(groups) /\ [][C33_ReturnStep /\ C33_LoopStep]_vars

\* The end callbacks of a transfer have just run, its transition having
\* taken snapshots and returned normally, and no snapshot is left.
C33_Witness ==
    /\ IsDefined(lastRun.ended)
    /\ Get(lastRun.ended).twoSided
    /\ trans[Get(lastRun.ended).t].state /= "none"
    /\ groups /= <<>>
    /\ NoSnapshots(groups)

\* The step just taken ran performTransition and its mutation callback
\* raised an exception: the wave loop was not reached.
CallbackThrew == Ran /\ lastRun.threw /\ lastRun.scans = 0

\* C34: an exception raised by the mutation callback does not wedge the
\* engine: afterwards the in-flight flag is false, no group retains an old
\* snapshot, and a later startTransitionSE call can start a transition.
C34_CallbackExceptionRecovers ==
    CallbackThrew => /\ ~isTransitioning
                     /\ NoSnapshots(groups)

\* The places in the registry of the transition just run of the entries
\* whose active element names a dependency that has no entry.
DanglingDependents ==
    {i \in 1..Len(lastRun.input) :
        ~(ActiveDeps(lastRun.input[i], elementState)
            \subseteq NamesOf(lastRun.input))}

\* C35: if a group's active element lists a dependency name that has no
\* registry entry, that group is never classified runnable in that
\* transition: it gets no overlay or animation, its live element is not
\* hidden, and the wave loop ends in the overflow branch after
\* maxDependencyDepth scans.
C35_DanglingDependencyOverflows ==
    Ran =>
        \A i \in DanglingDependents :
            /\ NothingFor(lastRun.input[i].name)
            /\ Range(lastRun.input[i].elements) \cap hidden = {}
            /\ lastRun.overflow
            /\ lastRun.scans = maxDependencyDepth

\* The same of the runs in which no exception left the loop.
C35_UnlessThrown == (Ran /\ ~lastRun.threw) => C35_DanglingDependencyOverflows

\* A run that reached the overflow branch over a dependency with no entry,
\* having started another group.
C35_UnlessThrownWitness ==
    /\ Ran
    /\ ~lastRun.threw
    /\ DanglingDependents /= {}
    /\ lastRun.events /= <<>>

\* The old element the snapshots of the run just taken hold for the group
\* called n: 0 if they hold none.
SnapshotOf(run, n) ==
    IF Has(run.input, n) /\ IsDefined(GetGroup(run.input, n).elOld)
    THEN Get(GetGroup(run.input, n).elOld).el
    ELSE 0

\* What holds of the step in which the reaction of a deferred request runs
\* performTransition: the future the request was put on has settled, and
\* the snapshots are those of the registry as the step finds it - of the
\* one live element of each group that has exactly one, with the settings
\* it has then, and of no element that is no longer registered.
C36_DeferredStep ==
    (lastRun'.t /= 0 /\ ~lastRun'.call) =>
        /\ requests[lastRun'.t].how = "deferred"
        /\ requests[lastRun'.t].on \in settled
        /\ \A i \in 1..Len(groups) :
              IF Len(groups[i].elements) = 1
              THEN /\ SnapshotOf(lastRun', groups[i].name)
                       = groups[i].elements[1]
                   /\ GetGroup(lastRun'.input, groups[i].name).elOld
                       = SaveGroup(groups[i], elementState).elOld
              ELSE SnapshotOf(lastRun', groups[i].name) = 0

\* C36: a deferred transition takes its snapshot when it begins, after the
\* earlier transition's completion future has settled, not when it was
\* requested: registrations and removals made between the deferred request
\* and its start are reflected in its old snapshots.
C36_DeferredSnapshotAtStart == [][C36_DeferredStep]_vars

\* The pairs of deferred requests put on the same completion future, the
\* earlier request first.
DeferredTogether ==
    {<<r1, r2>> \in Requests \X Requests :
        /\ r1 < r2
        /\ requests[r1].how = "deferred"
        /\ requests[r2].how = "deferred"
        /\ requests[r1].on = requests[r2].on}

\* No callback has run twice, and the later request's has run only if the
\* earlier request's has.
C37_InOrder(p) ==
    /\ requests[p[1]].runs <= 1
    /\ requests[p[2]].runs <= 1
    /\ requests[p[2]].runs = 1 => requests[p[1]].runs = 1

\* C37: when several deferred requests are attached to the same in-flight
\* transition, each of their mutation callbacks runs exactly once and they
\* run in the order in which the requests were made.
C37_DeferredOnceInOrder ==
    \A p \in DeferredTogether :
        /\ C37_InOrder(p)
        /\ Quiescent => (requests[p[1]].runs = 1 /\ requests[p[2]].runs = 1)

\* The same of the transitions that complete: once the future has settled
\* and its reactions have run, each callback has run exactly once.
C37_OnceCompleted ==
    \A p \in DeferredTogether :
        /\ C37_InOrder(p)
        /\ (requests[p[1]].on \in settled /\ microtasks = <<>>)
              => (requests[p[1]].runs = 1 /\ requests[p[2]].runs = 1)

\* Two requests deferred on the same future, the first of which has run
\* and the second not yet.
C37_OnceCompletedWitness ==
    \E p \in DeferredTogether :
        requests[p[1]].runs = 1 /\ requests[p[2]].runs = 0

\* The step just taken was a startTransitionSE call that started a
\* transition.
Started == lastRun.call /\ lastRun.t /= 0

\* A startTransitionSE call that follows at once on one that started a
\* transition starts none: it is deferred or dropped.
C38_SecondCallStep ==
    (Started /\ lastRun'.call) =>
        /\ lastRun'.t = 0
        /\ requests'[Len(requests')].how \in {"deferred", "dropped"}
        /\ requests'[Len(requests')].runs = 0

\* C38: immediately after a startTransitionSE call that started a
\* transition returns, the in-flight flag is still true even if no group
\* was animated; a second startTransitionSE call made synchronously after
\* it is therefore deferred or dropped and never starts immediately.
C38_FlagSetOnReturn ==
    /\ [](Started => isTransitioning)
    /\ [][C38_SecondCallStep]_vars

\* A call has just been deferred or dropped behind a transition that
\* animated no group and whose completion is still queued as a promise
\* reaction.
C38_Witness ==
    /\ lastRun.call
    /\ lastRun.t = 0
    /\ Len(requests) >= 2
    /\ requests[Len(requests) - 1].how = "immediate"
    /\ transitionRoot = {}
    /\ microtasks /= <<>>
    /\ Head(microtasks) = Job("transEnd", Len(requests) - 1, "")

====
